---------------------------- MODULE Spec2Model ----------------------------
(***************************************************************************)
(* Model of the incremental document generators of llm-doc-generation:     *)
(* the file-backed content cache and prepareContext (src/index.ts), the    *)
(* renderer generateDocFromParts (src/index.ts), the section walk with     *)
(* retry of generate (src/generate-api-doc.ts, src/generate-cli-doc.ts),   *)
(* the file summarizer (src/unnamed/part_001), the OpenAPI generator       *)
(* (src/generate-openapi.ts) and generateSection / generatePart            *)
(* (src/generate-api-doc.ts).                                              *)
(***************************************************************************)
EXTENDS Integers, Sequences, FiniteSets, TLC

VARIABLES
    CONTEXT,    \* index.ts:335  process-wide in-memory mirror of the cache
    disk,       \* the context files, one per context name (index.ts:358-360)
    last,       \* the last cache operation a caller made, with what it returned
    saved,      \* a saveToContext has completed in the running process
    otherWrites,\* number of saves another process has made to the context file
    pc,         \* where generate (or the caller of the renderer) stands
    toc,        \* generate-api-doc.ts:130  the table of contents of the run
    idx,        \* position of `section` in toc.sections (the for-of loop, :139)
    i,          \* generate-api-doc.ts:154  attempt index of the retry loop
    res,        \* generate-api-doc.ts:152  result of the last section call
    generatedSection, \* generate-api-doc.ts:153
    partIdx,    \* position of `part` in section.parts (the for-of loop, :172)
    docParts,   \* generate-api-doc.ts:104  sections handed to the renderer
    docState,   \* generate-api-doc.ts:148  previously_generated of the prompts
    pages,      \* content/<prefix>/<slug>/page.mdx files written so far
    runs,       \* number of invocations of the generator so far
    err,        \* the error generate threw, when it did
    hist,       \* observations of the current run (calls issued, prompts, ...)
    options,    \* the command-line options of the invocation (index.ts:591-602)
    filesByKey, \* unnamed/part_001:19  the file lists getFiles returned, per key
    keyIdx,     \* position of `key` in filesByKey (the for-of loop, :22)
    filesToProcess, \* unnamed/part_001:25
    sliceIdx,   \* position of `slice` in slices (the for-of loop, :29)
    calls,      \* the remote calls issued so far and what became of each
    saves,      \* the saveToContext calls suspended at their await, oldest first
    output,     \* unnamed/part_001:54  the state written at the end
    typesToc,   \* generate-openapi.ts:92  the table of types
    typeIdx,    \* position of `typeName` in typesToc.types (the loop at :122)
    sectionIds, \* generate-openapi.ts:84
    builder,    \* generate-openapi.ts:127  what has been added to the builder
    pos,        \* position of the loops that fill the builder (:128, :133)
    specFile,   \* generate-openapi.ts:155  the file openapi-spec.yaml
    unit        \* locals of the generateSection in progress (generate-api-doc.ts:36-43)

cacheVars == <<CONTEXT, disk, last, saved, otherWrites>>
genVars == <<pc, toc, idx, i, res, generatedSection, partIdx, docParts, docState,
             pages, runs, err, hist, options>>
oaVars == <<typesToc, typeIdx, sectionIds, builder, pos, specFile, unit>>
extVars == <<filesByKey, keyIdx, filesToProcess, sliceIdx, calls, saves, output,
             oaVars>>
vars == <<CONTEXT, disk, last, saved, otherWrites, pc, toc, idx, i, res,
          generatedSection, partIdx, docParts, docState, pages, runs, err, hist,
          options, filesByKey, keyIdx, filesToProcess, sliceIdx, calls, saves,
          output, typesToc, typeIdx, sectionIds, builder, pos, specFile, unit>>

(***************************************************************************)
(* JavaScript values held in the cache.                                    *)
(***************************************************************************)
Undefined == [type |-> "undefined"]
Null      == [type |-> "null"]
Num(x)    == [type |-> "number", num |-> x]
Str(s)    == [type |-> "string", str |-> s]
Obj(o)    == [type |-> "object", obj |-> o]
Bool(b)   == [type |-> "boolean", bool |-> b]

\* JavaScript truthiness, as used by `if (contextData[key])` and `if (done)`.
Truthy(v) ==
    CASE v.type = "undefined" -> FALSE
      [] v.type = "null"      -> FALSE
      [] v.type = "number"    -> v.num # 0
      [] v.type = "string"    -> v.str # ""
      [] v.type = "boolean"   -> v.bool
      [] OTHER                -> TRUE

\* An object used as a mapping: a function from its own keys to values.
EmptyMap == [k \in {} |-> Undefined]

\* { ...a, ...b }: b's own properties override a's, undefined values included.
Spread(a, b) ==
    [k \in (DOMAIN a) \cup (DOMAIN b) |-> IF k \in DOMAIN b THEN b[k] ELSE a[k]]

\* JSON.stringify of a mapping: a property whose value is undefined is left out.
JSONstringify(m) ==
    [json |-> [k \in {x \in DOMAIN m : m[x] # Undefined} |-> m[k]]]

\* JSON.parse of a text JSON.stringify produced.
JSONparse(text) == text.json

\* zlib.gzipSync / zlib.gunzipSync: lossless.
gzipSync(data) == [gz |-> data]
gunzipSync(buf) == buf.gz

(***************************************************************************)
(* Bounds of the cache scenarios.                                          *)
(***************************************************************************)
MaxVal == 3
MaxOtherWrites == 1

ContextNames == {"default"}
Keys == {"a", "b"}
Vals == {Num(x) : x \in 1..MaxVal} \cup {Undefined}
Partials == UNION {[D -> Vals] : D \in SUBSET Keys}
OneKeyPartials == {[k \in {key} |-> Num(x)] : key \in Keys, x \in 1..MaxVal}

(***************************************************************************)
(* The content cache (src/index.ts:335-404).  Each operator takes the      *)
(* mirror and the files and returns what the function returns and leaves.  *)
(***************************************************************************)
NoContext == [set |-> FALSE, map |-> EmptyMap]
NoFile    == [exists |-> FALSE]

getContextFileName(name) == name

\* Variant of loadContext that never reads the file of the context.
loadContext_ignoresFile(ctx, dsk, name) ==
    IF ctx.set
    THEN [ret |-> ctx.map, CONTEXT |-> ctx]
    ELSE [ret |-> EmptyMap, CONTEXT |-> ctx]

\* Variant of loadContext that reads the file whenever there is one.
loadContext_fileFirst(ctx, dsk, name) ==
    LET contextPath == getContextFileName(name) IN
    IF dsk[contextPath].exists
    THEN LET data == gunzipSync(dsk[contextPath].data)
             contextData == JSONparse(data)
         IN  [ret |-> contextData, CONTEXT |-> [set |-> TRUE, map |-> contextData]]
    ELSE IF ctx.set
    THEN [ret |-> ctx.map, CONTEXT |-> ctx]
    ELSE [ret |-> EmptyMap, CONTEXT |-> ctx]

loadContext(ctx, dsk, name) ==
    IF ctx.set
    THEN [ret |-> ctx.map, CONTEXT |-> ctx]
    ELSE LET contextPath == getContextFileName(name) IN
         IF dsk[contextPath].exists
         THEN LET data == gunzipSync(dsk[contextPath].data)
                  contextData == JSONparse(data)
              IN  [ret |-> contextData, CONTEXT |-> [set |-> TRUE, map |-> contextData]]
         ELSE [ret |-> EmptyMap, CONTEXT |-> ctx]

\* Variant of getFromContext that tests the presence of the key only.
getFromContext_presentOnly(ctx, dsk, contextName, key) ==
    LET l == loadContext(ctx, dsk, contextName)
        contextData == l.ret
    IN  [ret |-> IF key \in DOMAIN contextData /\ contextData[key] # Undefined
                 THEN contextData[key]
                 ELSE Null,
         CONTEXT |-> l.CONTEXT]

getFromContext(ctx, dsk, contextName, key) ==
    LET l == loadContext(ctx, dsk, contextName)
        contextData == l.ret
    IN  [ret |-> IF key \in DOMAIN contextData /\ Truthy(contextData[key])
                 THEN contextData[key]
                 ELSE Null,
         CONTEXT |-> l.CONTEXT]

\* Variant of the merge in which the stored value of a key wins.
MergeContext_oldWins(contextData, data) == Spread(data, contextData)

MergeContext(contextData, data) == Spread(contextData, data)

\* Variant of saveToContext that writes the file and leaves the mirror as the
\* load left it.
saveToContext_noMirrorUpdate(ctx, dsk, contextName, data) ==
    LET l == loadContext(ctx, dsk, contextName)
        newContext == Spread(l.ret, data)
        compressed == gzipSync(JSONstringify(newContext))
        file == getContextFileName(contextName)
    IN  [CONTEXT |-> l.CONTEXT,
         disk |-> [dsk EXCEPT ![file] = [exists |-> TRUE, data |-> compressed]]]

\* Variant of saveToContext that writes only the new entries to the file.
saveToContext_writesDataOnly(ctx, dsk, contextName, data) ==
    LET l == loadContext(ctx, dsk, contextName)
        newContext == Spread(l.ret, data)
        compressed == gzipSync(JSONstringify(data))
        file == getContextFileName(contextName)
    IN  [CONTEXT |-> [set |-> TRUE, map |-> Spread(EmptyMap, newContext)],
         disk |-> [dsk EXCEPT ![file] = [exists |-> TRUE, data |-> compressed]]]

saveToContext(ctx, dsk, contextName, data) ==
    LET l == loadContext(ctx, dsk, contextName)
        contextData == l.ret
        newContext == MergeContext(contextData, data)
        compressed == gzipSync(JSONstringify(newContext))
        file == getContextFileName(contextName)
    IN  [CONTEXT |-> [set |-> TRUE, map |-> Spread(EmptyMap, newContext)],
         disk |-> [dsk EXCEPT ![file] = [exists |-> TRUE, data |-> compressed]]]

\* index.ts:392-403  saveToContext from its await on: contextData is what its
\* loadContext returned before the function was suspended.
saveToContext_afterAwait(dsk, contextName, contextData, data) ==
    LET newContext == MergeContext(contextData, data)
        compressed == gzipSync(JSONstringify(newContext))
        file == getContextFileName(contextName)
    IN  [CONTEXT |-> [set |-> TRUE, map |-> Spread(EmptyMap, newContext)],
         disk |-> [dsk EXCEPT ![file] = [exists |-> TRUE, data |-> compressed]]]

\* What the file of a context holds, as a mapping (the empty one without a file).
FileMap(dsk, name) ==
    IF dsk[name].exists THEN JSONparse(gunzipSync(dsk[name].data)) ELSE EmptyMap

NoOp == [op |-> "none"]

(***************************************************************************)
(* The renderer (src/index.ts:407-426).  A string is modelled as the       *)
(* sequence of the contents appended to it, each followed by "\n\n".       *)
(***************************************************************************)
RECURSIVE DocLoop(_, _, _)
DocLoop(parts, k, doc) ==
    IF k > Len(parts)
    THEN doc
    ELSE LET section == parts[k]
             \* doc = section.content + "\n\n"   (an assignment)
             started == <<section.content>>
             \* doc += subPart.content + "\n\n"   for each part
             withParts == started \o [j \in 1..Len(section.parts) |->
                                          section.parts[j].content]
         IN  DocLoop(parts, k + 1, withParts)

generateDocFromParts(parts) == DocLoop(parts, 1, <<>>)

(***************************************************************************)
(* Tables of contents the remote call may return, and remote outcomes.     *)
(***************************************************************************)
MaxSections == 3
MaxParts == 1
MaxRuns == 2

SlugTable == <<"s1", "s2", "s3", "s4", "s5">>
TitleTable == <<"S1", "S2", "S3", "S4", "S5">>
PartTitleTable == <<"P1", "P2", "P3", "P4", "P5">>
SectionKeys == [s1 |-> "section-s1", s2 |-> "section-s2", s3 |-> "section-s3",
                s4 |-> "section-s4", s5 |-> "section-s5"]

\* 'section-' + section.slug
SectionKey(slug) == SectionKeys[slug]

TocPart(j) == [slug |-> PartTitleTable[j], title |-> PartTitleTable[j]]
TocSection(k, nparts) ==
    [slug |-> SlugTable[k], title |-> TitleTable[k],
     parts |-> [j \in 1..nparts |-> TocPart(j)]]

\* MaxSections sections, of which at most one (section w) is split in parts.
TocWith(w, nparts) ==
    [sections |-> [k \in 1..MaxSections |->
                      TocSection(k, IF k = w THEN nparts ELSE 0)]]
Tocs == {TocWith(0, 0)} \cup
        {TocWith(w, q) : w \in 1..MaxSections, q \in 1..MaxParts}

\* part_name of a section call and of a part call (title + " > " + title).
SectionName(section) == <<section.title>>
PartName(section, part) == <<section.title, " > ", part.title>>

\* What the remote call answers for a part_name: the text for it, or nothing.
Results(part_name) == {part_name, <<>>}

\* Messages a rejected remote call carries, as sequences of words.
Messages == {<<"500", "Internal Server Error">>, <<"503", "Service Unavailable">>,
             <<"400", "Bad Request">>, <<"400", "max_tokens", "500", "exceeded">>}
\* executeGeneration: throw new Error('Failed to generate part: ' + err.message)
Rethrown(message) == <<"Failed to generate part:">> \o message
\* Variant of includes500 that takes every error for a transient one.
includes500_anyError(message) == Len(message) > 0

\* err.message.includes('500')
includes500(message) == \E x \in 1..Len(message) : message[x] = "500"

(***************************************************************************)
(* generate (src/generate-api-doc.ts:99-217).                              *)
(***************************************************************************)
useContext == "default"
MaxAttempts == 5
InputKeys == {"serverApi", "clientApi", "types", "examples"}

NoToc == [sections |-> <<>>]
NoRes == [defined |-> FALSE, result |-> <<>>]
NoSection == [defined |-> FALSE, slug |-> "", title |-> "", content |-> <<>>,
              parts |-> <<>>]
NoCall == [kind |-> "none"]
NoHist == [called |-> {}, tocCalls |-> 0, firstCall |-> NoCall,
           prompt |-> NoCall, attempts |-> 0, failures |-> 0,
           rejected |-> <<>>, rejectedAt |-> "none", wait |-> 0,
           lastIssued |-> NoCall, prevIssued |-> NoCall, inflight |-> 0,
           atStart |-> EmptyMap, prev |-> [pc |-> "none", idx |-> 0]]

\* The generator is not running (the cache and renderer scenarios).
\* The invocations: with and without the option -s/--server.
Invocations == {[server |-> b] : b \in BOOLEAN}

NoOutput == [written |-> FALSE]
NoTypesToc == [types |-> <<>>]
NoBuilder == [paths |-> <<>>, schemas |-> <<>>]
NoSpecFile == [written |-> FALSE]
NoUnit == [active |-> FALSE]

\* The summarizer has not run.
ExtIdle ==
    /\ filesByKey = <<>>
    /\ keyIdx = 0
    /\ filesToProcess = <<>>
    /\ sliceIdx = 0
    /\ calls = <<>>
    /\ saves = <<>>
    /\ output = NoOutput
    /\ typesToc = NoTypesToc
    /\ typeIdx = 0
    /\ sectionIds = <<>>
    /\ builder = NoBuilder
    /\ pos = 0
    /\ specFile = NoSpecFile
    /\ unit = NoUnit

GenIdle ==
    /\ ExtIdle
    /\ pc = "idle"
    /\ toc = NoToc
    /\ idx = 0
    /\ i = 0
    /\ res = NoRes
    /\ generatedSection = NoSection
    /\ partIdx = 0
    /\ docParts = <<>>
    /\ docState = <<>>
    /\ pages = EmptyMap
    /\ runs = 0
    /\ err = <<>>
    /\ hist = NoHist
    /\ options = [server |-> TRUE]

GenInit ==
    /\ CONTEXT = NoContext
    /\ disk = [f \in ContextNames |-> NoFile]
    /\ last = NoOp
    /\ saved = FALSE
    /\ otherWrites = 0
    /\ pc = "launch"
    /\ toc = NoToc
    /\ idx = 0
    /\ i = 0
    /\ res = NoRes
    /\ generatedSection = NoSection
    /\ partIdx = 0
    /\ docParts = <<>>
    /\ docState = <<>>
    /\ pages = EmptyMap
    /\ runs = 1
    /\ err = <<>>
    /\ hist = NoHist
    /\ options \in Invocations
    /\ ExtIdle

\* Variant of section that walks the table of contents from its last section.
section_fromLast == toc.sections[Len(toc.sections) + 1 - idx]

section == toc.sections[idx]
part == section.parts[partIdx]

\* The first remote call of the run is remembered.
Noted(h, call) ==
    [h EXCEPT !.firstCall = IF h.firstCall = NoCall THEN call ELSE @]

\* A remote call is issued: it is in flight, and it is the last one issued.
Issued(h, call) ==
    [h EXCEPT !.prevIssued = h.lastIssued, !.lastIssued = call, !.inflight = @ + 1]

\* A remote call resolved or rejected: it is no longer in flight.
Settled(h) == [h EXCEPT !.inflight = @ - 1]

\* The calls of generateToc, of a section and of the j-th part of a section.
TocCall == [kind |-> "toc", slug |-> "", part |-> 0]
SectionCall == [kind |-> "section", slug |-> section.slug, part |-> 0]
PartCall(j) == [kind |-> "part", slug |-> section.slug, part |-> j]

\* getFilesContent(files, key): the content of the input files of a key.
getFilesContent(key) == Str(key)

\* :225-235  the action handler of the command: it builds the client from the
\* options (there is no test of options.server) and calls generate.
Launch ==
    /\ pc = "launch"
    /\ pc' = "start"
    /\ UNCHANGED <<extVars, cacheVars, toc, idx, i, res, generatedSection, partIdx,
                   docParts, docState, pages, runs, err, hist, options>>

\* :110-136  read the inputs, save them, look the table of contents up.
Start ==
    /\ pc = "start"
    /\ LET got == [k \in InputKeys |-> getFromContext(CONTEXT, disk, useContext, k)]
           inputs == [k \in InputKeys |->
                         IF got[k].ret # Null THEN got[k].ret ELSE getFilesContent(k)]
           c0 == loadContext(CONTEXT, disk, useContext).CONTEXT
           s == saveToContext(c0, disk, useContext, inputs)
           t == getFromContext(s.CONTEXT, s.disk, useContext, "toc")
       IN  /\ CONTEXT' = t.CONTEXT
           /\ disk' = s.disk
           /\ saved' = TRUE
           /\ IF Truthy(t.ret)
              THEN /\ toc' = t.ret.obj
                   /\ pc' = "walk"
                   /\ idx' = 1
                   /\ hist' = [hist EXCEPT !.atStart = FileMap(disk, useContext)]
              ELSE /\ toc' = toc
                   /\ pc' = "tocCall"
                   /\ idx' = idx
                   /\ hist' = Issued(Noted([hist EXCEPT
                                        !.atStart = FileMap(disk, useContext),
                                        !.tocCalls = @ + 1],
                                    [kind |-> "toc"]), TocCall)
    /\ UNCHANGED <<extVars, last, otherWrites, i, res, generatedSection, partIdx,
                   docParts, docState, pages, runs, err,
                   options>>

\* :133-135  generateToc resolved: the table of contents is saved.
TocReturn(t) ==
    /\ pc = "tocCall"
    /\ LET s == saveToContext(CONTEXT, disk, useContext,
                              [k \in {"toc"} |-> Obj(t)])
       IN  /\ CONTEXT' = s.CONTEXT
           /\ disk' = s.disk
    /\ toc' = t
    /\ pc' = "walk"
    /\ idx' = 1
    /\ hist' = Settled(hist)
    /\ UNCHANGED <<extVars, last, saved, otherWrites, i, res, generatedSection,
                   partIdx, docParts, docState, pages, runs, err,
                   options>>

\* Variant of TocReject in which generateToc calls the remote service again.
TocReject_callsAgain(message) ==
    /\ pc = "tocCall"
    /\ hist' = [hist EXCEPT !.tocCalls = @ + 1]
    /\ UNCHANGED <<extVars, cacheVars, pc, toc, idx, i, res, generatedSection, partIdx,
                   docParts, docState, pages, runs, err, options>>

\* :133  generateToc rejected: generate throws.
TocReject(message) ==
    /\ pc = "tocCall"
    /\ pc' = "failed"
    /\ err' = Rethrown(message)
    /\ hist' = Settled(hist)
    /\ UNCHANGED <<extVars, cacheVars, toc, idx, i, res, generatedSection, partIdx,
                   docParts, docState, pages, runs,
                   options>>

\* :139  the loop over toc.sections is over.
Finish ==
    /\ pc = "walk"
    /\ idx > Len(toc.sections)
    /\ pc' = "finished"
    /\ UNCHANGED <<extVars, cacheVars, toc, idx, i, res, generatedSection, partIdx,
                   docParts, docState, pages, runs, err, hist,
                   options>>

\* :140-144  the section has its marker: it is skipped.
SkipSection ==
    /\ pc = "walk"
    /\ idx <= Len(toc.sections)
    /\ LET done == getFromContext(CONTEXT, disk, useContext, SectionKey(section.slug))
       IN  /\ Truthy(done.ret)
           /\ CONTEXT' = done.CONTEXT
    /\ idx' = idx + 1
    /\ UNCHANGED <<extVars, disk, last, saved, otherWrites, pc, toc, i, res,
                   generatedSection, partIdx, docParts, docState, pages, runs,
                   err, hist,
                   options>>

\* The prompt of the section call (:156-161).
SectionPrompt(state) ==
    [kind |-> "section", slug |-> section.slug,
     part_name |-> SectionName(section), previously_generated |-> state]

\* The prompt of a part call (:174-182).
PartPrompt(state, j) ==
    [kind |-> "part", slug |-> section.slug,
     part_name |-> PartName(section, section.parts[j]),
     previously_generated |-> state]

\* Variant of BeginSection that does not look the marker of the section up.
BeginSection_noSkipCheck ==
    /\ pc = "walk"
    /\ idx <= Len(toc.sections)
    /\ docState' = generateDocFromParts(docParts)
    /\ i' = 0
    /\ res' = NoRes
    /\ generatedSection' = NoSection
    /\ partIdx' = 0
    /\ pc' = "sectionCall"
    /\ hist' = Issued(Noted([hist EXCEPT !.called = @ \cup {section.slug},
                                  !.attempts = 1,
                                  !.failures = 0,
                                  !.prompt = SectionPrompt(docState')],
                     [kind |-> "section", slug |-> section.slug]),
                     SectionCall)
    /\ UNCHANGED <<extVars, cacheVars, toc, idx, docParts, pages, runs, err,
                   options>>

\* Variant of BeginSection that issues the call of the first part together
\* with the section call, without awaiting the latter.
BeginSection_partNotAwaited ==
    /\ pc = "walk"
    /\ idx <= Len(toc.sections)
    /\ LET done == getFromContext(CONTEXT, disk, useContext, SectionKey(section.slug))
       IN  /\ ~Truthy(done.ret)
           /\ CONTEXT' = done.CONTEXT
    /\ docState' = generateDocFromParts(docParts)
    /\ i' = 0
    /\ res' = NoRes
    /\ generatedSection' = NoSection
    /\ partIdx' = 0
    /\ pc' = "sectionCall"
    /\ LET h == Issued(Noted([hist EXCEPT !.called = @ \cup {section.slug},
                                          !.attempts = 1,
                                          !.failures = 0,
                                          !.prompt = SectionPrompt(docState')],
                             [kind |-> "section", slug |-> section.slug]),
                       SectionCall)
       IN  hist' = IF Len(section.parts) > 0 THEN Issued(h, PartCall(1)) ELSE h
    /\ UNCHANGED <<extVars, disk, last, saved, otherWrites, toc, idx, docParts, pages,
                   runs, err, options>>

\* :140-161  the section has no marker: first attempt of its call.
BeginSection ==
    /\ pc = "walk"
    /\ idx <= Len(toc.sections)
    /\ LET done == getFromContext(CONTEXT, disk, useContext, SectionKey(section.slug))
       IN  /\ ~Truthy(done.ret)
           /\ CONTEXT' = done.CONTEXT
    /\ docState' = generateDocFromParts(docParts)
    /\ i' = 0
    /\ res' = NoRes
    /\ generatedSection' = NoSection
    /\ partIdx' = 0
    /\ pc' = "sectionCall"
    /\ hist' = Issued(Noted([hist EXCEPT !.called = @ \cup {section.slug},
                                  !.attempts = 1,
                                  !.failures = 0,
                                  !.prompt = SectionPrompt(docState')],
                     [kind |-> "section", slug |-> section.slug]),
                     SectionCall)
    /\ UNCHANGED <<extVars, disk, last, saved, otherWrites, toc, idx, docParts, pages,
                   runs, err,
                   options>>

\* :156-186  the section call resolved.
SectionResolved(result) ==
    /\ res' = [defined |-> TRUE, result |-> result]
    /\ generatedSection' = [defined |-> TRUE, slug |-> section.slug,
                            title |-> section.title, content |-> result,
                            parts |-> <<>>]
    /\ IF Len(section.parts) > 0
       THEN /\ pc' = "partCall"
            /\ partIdx' = 1
            /\ hist' = Issued(Settled([hist EXCEPT
                                           !.prompt = PartPrompt(docState, 1)]),
                              PartCall(1))
       ELSE /\ pc' = "afterLoop"
            /\ partIdx' = partIdx
            /\ hist' = Settled(hist)
    /\ UNCHANGED <<extVars, cacheVars, toc, idx, i, docParts, docState, pages, runs, err,
                   options>>

SectionReturn ==
    /\ pc = "sectionCall"
    /\ \E result \in Results(SectionName(section)) : SectionResolved(result)

\* :174-186  a part call resolved.
PartResolved(result) ==
    /\ generatedSection' =
           [generatedSection EXCEPT
               !.parts = Append(@, [title |-> part.title, content |-> result])]
    /\ IF partIdx < Len(section.parts)
       THEN /\ pc' = "partCall"
            /\ partIdx' = partIdx + 1
            /\ hist' = Issued(Settled([hist EXCEPT
                                    !.prompt = PartPrompt(docState, partIdx + 1)]),
                              PartCall(partIdx + 1))
       ELSE /\ pc' = "afterLoop"
            /\ partIdx' = partIdx
            /\ hist' = Settled(hist)
    /\ UNCHANGED <<extVars, cacheVars, toc, idx, i, res, docParts, docState, pages,
                   runs, err,
                   options>>

PartReturn ==
    /\ pc = "partCall"
    /\ \E result \in Results(PartName(section, part)) : PartResolved(result)

\* :149  const waitTime = 3 //in sec
waitTime == 3

\* Variant of Backoff whose exponent is the attempt index itself.
Backoff_exponentOff(attempt) ==
    IF attempt < 3 THEN 30 * 1000 ELSE 1000 * waitTime ^ attempt

\* :191  the delay of the setTimeout, in ms: i < 3 ? 30 * 1000 : 1000 * Math.pow(waitTime, i + 1)
Backoff(attempt) ==
    IF attempt < 3 THEN 30 * 1000 ELSE 1000 * waitTime ^ (attempt + 1)

\* Variant of CallReject in which only the section call is retried.
CallReject_partFatal(message) ==
    /\ pc \in {"sectionCall", "partCall"}
    /\ IF includes500(Rethrown(message)) /\ i < MaxAttempts /\ pc = "sectionCall"
       THEN /\ pc' = "wait"
            /\ hist' = [hist EXCEPT !.failures = @ + 1,
                                    !.rejected = Rethrown(message),
                                    !.rejectedAt = pc,
                                    !.wait = Backoff(i),
                                    !.inflight = @ - 1]
            /\ err' = err
       ELSE /\ pc' = "failed"
            /\ err' = Rethrown(message)
            /\ hist' = [hist EXCEPT !.rejected = Rethrown(message),
                                    !.rejectedAt = pc,
                                    !.inflight = @ - 1]
    /\ UNCHANGED <<extVars, cacheVars, toc, idx, i, res, generatedSection, partIdx,
                   docParts, docState, pages, runs, options>>

\* :188-195  a call of the attempt rejected: wait and retry, or throw.
CallReject(message) ==
    /\ pc \in {"sectionCall", "partCall"}
    /\ IF includes500(Rethrown(message)) /\ i < MaxAttempts
       THEN /\ pc' = "wait"
            /\ hist' = [hist EXCEPT !.failures = @ + 1,
                                    !.rejected = Rethrown(message),
                                    !.rejectedAt = pc,
                                    !.wait = Backoff(i),
                                    !.inflight = @ - 1]
            /\ err' = err
       ELSE /\ pc' = "failed"
            /\ err' = Rethrown(message)
            /\ hist' = [hist EXCEPT !.rejected = Rethrown(message),
                                    !.rejectedAt = pc,
                                    !.inflight = @ - 1]
    /\ UNCHANGED <<extVars, cacheVars, toc, idx, i, res, generatedSection, partIdx,
                   docParts, docState, pages, runs, options>>

\* Variant of WaitElapsed that starts the next attempt without counting it.
WaitElapsed_notCounted ==
    /\ pc = "wait"
    /\ i' = i
    /\ pc' = "sectionCall"
    /\ hist' = Issued([hist EXCEPT !.attempts = @ + 1,
                                   !.prompt = SectionPrompt(docState)],
                      SectionCall)
    /\ UNCHANGED <<extVars, cacheVars, toc, idx, res, generatedSection, partIdx,
                   docParts, docState, pages, runs, err,
                   options>>

\* :191, :154-161  the wait is over: i++, and the next attempt if i < 5.
WaitElapsed ==
    /\ pc = "wait"
    /\ i' = i + 1
    /\ IF i + 1 < MaxAttempts
       THEN /\ pc' = "sectionCall"
            /\ hist' = Issued([hist EXCEPT !.attempts = @ + 1,
                                           !.prompt = SectionPrompt(docState)],
                              SectionCall)
       ELSE /\ pc' = "afterLoop"
            /\ hist' = hist
    /\ UNCHANGED <<extVars, cacheVars, toc, idx, res, generatedSection, partIdx,
                   docParts, docState, pages, runs, err,
                   options>>

\* :198-201  nothing was generated: generate returns.
GiveUp ==
    /\ pc = "afterLoop"
    /\ (~res.defined \/ res.result = <<>> \/ ~generatedSection.defined)
    /\ pc' = "returned"
    /\ UNCHANGED <<extVars, cacheVars, toc, idx, i, res, generatedSection, partIdx,
                   docParts, docState, pages, runs, err, hist,
                   options>>

\* Variant of MarkDone that saves the generated section under the marker key.
MarkDone_savesContent ==
    /\ pc = "afterLoop"
    /\ ~(~res.defined \/ res.result = <<>> \/ ~generatedSection.defined)
    /\ LET s == saveToContext(CONTEXT, disk, useContext,
                              [k \in {SectionKey(section.slug)} |-> Obj(generatedSection)])
       IN  /\ CONTEXT' = s.CONTEXT
           /\ disk' = s.disk
    /\ pc' = "write"
    /\ UNCHANGED <<extVars, last, saved, otherWrites, toc, idx, i, res, generatedSection,
                   partIdx, docParts, docState, pages, runs, err, hist,
                   options>>

\* :198-205  the section is marked as generated.
MarkDone ==
    /\ pc = "afterLoop"
    /\ ~(~res.defined \/ res.result = <<>> \/ ~generatedSection.defined)
    /\ LET s == saveToContext(CONTEXT, disk, useContext,
                              [k \in {SectionKey(section.slug)} |-> Obj(section)])
       IN  /\ CONTEXT' = s.CONTEXT
           /\ disk' = s.disk
    /\ pc' = "write"
    /\ UNCHANGED <<extVars, last, saved, otherWrites, toc, idx, i, res, generatedSection,
                   partIdx, docParts, docState, pages, runs, err, hist,
                   options>>

\* :206-210  writeSectionToDisk, then the next section.
WriteSection ==
    /\ pc = "write"
    /\ pages' = Spread(pages, [k \in {generatedSection.slug} |-> generatedSection])
    /\ idx' = idx + 1
    /\ pc' = "walk"
    /\ UNCHANGED <<extVars, cacheVars, toc, i, res, generatedSection, partIdx, docParts,
                   docState, runs, err, hist,
                   options>>

\* The run is over and the generator is invoked again on the same context:
\* a new process, with no mirror and fresh locals; the files stay.
Rerun ==
    /\ pc \in {"finished", "failed", "returned"}
    /\ runs < MaxRuns
    /\ runs' = runs + 1
    /\ CONTEXT' = NoContext
    /\ saved' = FALSE
    /\ pc' = "launch"
    /\ toc' = NoToc
    /\ idx' = 0
    /\ i' = 0
    /\ res' = NoRes
    /\ generatedSection' = NoSection
    /\ partIdx' = 0
    /\ docParts' = <<>>
    /\ docState' = <<>>
    /\ err' = <<>>
    /\ hist' = [NoHist EXCEPT !.prev = [pc |-> pc, idx |-> idx]]
    /\ UNCHANGED <<extVars, disk, last, otherWrites, pages,
                   options>>

Next ==
    \/ Launch
    \/ Start
    \/ \E t \in Tocs : TocReturn(t)
    \/ \E message \in Messages : TocReject(message)
    \/ Finish
    \/ SkipSection
    \/ BeginSection
    \/ SectionReturn
    \/ PartReturn
    \/ \E message \in Messages : CallReject(message)
    \/ WaitElapsed
    \/ GiveUp
    \/ MarkDone
    \/ WriteSection
    \/ Rerun

Spec == GenInit /\ [][Next]_vars

(***************************************************************************)
(* generate of the CLI documentation generator (src/generate-cli-doc.ts:   *)
(* 16-118): the same walk with the same retry loop, and no content cache.  *)
(***************************************************************************)
\* generate-cli-doc.ts:120-133  the action handler: builds the client, calls
\* generate.
CliLaunch ==
    /\ pc = "launch"
    /\ pc' = "start"
    /\ UNCHANGED <<extVars, cacheVars, toc, idx, i, res, generatedSection, partIdx,
                   docParts, docState, pages, runs, err, hist, options>>

\* generate-cli-doc.ts:16-41  the inputs are read and generateToc is called.
CliStart ==
    /\ pc = "start"
    /\ pc' = "tocCall"
    /\ hist' = Issued(Noted([hist EXCEPT !.tocCalls = @ + 1], [kind |-> "toc"]),
                     TocCall)
    /\ UNCHANGED <<extVars, cacheVars, toc, idx, i, res, generatedSection, partIdx,
                   docParts, docState, pages, runs, err, options>>

\* generate-cli-doc.ts:41-43  generateToc resolved: writeTocToDisk(PREFIX, toc).
CliTocReturn(t) ==
    /\ pc = "tocCall"
    /\ toc' = t
    /\ pages' = Spread(pages, [k \in {"toc.json"} |-> t])
    /\ pc' = "walk"
    /\ idx' = 1
    /\ hist' = Settled(hist)
    /\ UNCHANGED <<extVars, cacheVars, i, res, generatedSection, partIdx, docParts,
                   docState, runs, err, options>>

\* generate-cli-doc.ts:45-65  the next section: first attempt of its call.
CliBeginSection ==
    /\ pc = "walk"
    /\ idx <= Len(toc.sections)
    /\ docState' = generateDocFromParts(docParts)
    /\ i' = 0
    /\ res' = NoRes
    /\ generatedSection' = NoSection
    /\ partIdx' = 0
    /\ pc' = "sectionCall"
    /\ hist' = Issued(Noted([hist EXCEPT !.called = @ \cup {section.slug},
                                  !.attempts = 1,
                                  !.failures = 0,
                                  !.prompt = SectionPrompt(docState')],
                     [kind |-> "section", slug |-> section.slug]),
                     SectionCall)
    /\ UNCHANGED <<extVars, cacheVars, toc, idx, docParts, pages, runs, err, options>>

\* generate-cli-doc.ts:100-111  the page of the section is written, then the
\* next section.
CliWriteSection ==
    /\ pc = "afterLoop"
    /\ ~(~res.defined \/ res.result = <<>> \/ ~generatedSection.defined)
    /\ pages' = Spread(pages, [k \in {generatedSection.slug} |-> generatedSection])
    /\ idx' = idx + 1
    /\ pc' = "walk"
    /\ UNCHANGED <<extVars, cacheVars, toc, i, res, generatedSection, partIdx, docParts,
                   docState, runs, err, hist, options>>

\* The retry loop and its exits are the code of generate-api-doc.ts line for
\* line (generate-cli-doc.ts:54-103).
CliNext ==
    \/ CliLaunch
    \/ CliStart
    \/ \E t \in Tocs : CliTocReturn(t)
    \/ \E message \in Messages : TocReject(message)
    \/ Finish
    \/ CliBeginSection
    \/ SectionReturn
    \/ PartReturn
    \/ \E message \in Messages : CallReject(message)
    \/ WaitElapsed
    \/ GiveUp
    \/ Rerun
    \/ CliWriteSection

SpecCli == GenInit /\ [][CliNext]_vars

(***************************************************************************)
(* The file summarizer (src/unnamed/part_001): the files of every key are  *)
(* summarized by remote calls issued slice by slice; every call that       *)
(* resolves saves its summary under the path of its file.                  *)
(***************************************************************************)
MaxFiles == 3
\* The size of a slice; the source passes 50 to chunkArray (:28).
BatchSize == 2

FileTable == <<"f1", "f2", "f3", "f4", "f5">>
SummaryTable == [f1 |-> "summary-f1", f2 |-> "summary-f2", f3 |-> "summary-f3",
                 f4 |-> "summary-f4", f5 |-> "summary-f5"]
AllFiles == SubSeq(FileTable, 1, MaxFiles)
\* res.result of the call made for a file
Summary(file) == Str(SummaryTable[file])

\* What glob found for the keys of options.files: one key or two.
FileLists == {SubSeq(AllFiles, 1, n) : n \in 0..MaxFiles}
FilesByKeys == {<<l>> : l \in FileLists} \cup {<<l, AllFiles>> : l \in FileLists}

\* :7-10  the loop of chunkArray: arr.slice(i, i + chunkSize) for i = 0,
\* chunkSize, 2 * chunkSize, ... below arr.length.
RECURSIVE chunkLoop(_, _)
chunkLoop(arr, chunkSize) ==
    IF Len(arr) = 0 THEN <<>>
    ELSE IF Len(arr) <= chunkSize THEN <<arr>>
    ELSE <<SubSeq(arr, 1, chunkSize)>>
         \o chunkLoop(SubSeq(arr, chunkSize + 1, Len(arr)), chunkSize)

\* :5-14  chunkArray: after the loop it logs chunks[chunks.length - 1].length
\* (:12), a property of undefined when there is no chunk: a TypeError.
chunkArray(arr, chunkSize) ==
    LET chunks == chunkLoop(arr, chunkSize) IN
    IF Len(chunks) = 0
    THEN [threw |-> TRUE, error |-> <<"TypeError">>]
    ELSE [threw |-> FALSE, ret |-> chunks]

slices == chunkArray(filesToProcess, BatchSize).ret

\* The number of the slice that is issued next, counted over the whole run.
NextBatch == IF calls = <<>> THEN 1 ELSE calls[Len(calls)].batch + 1
CurrentBatch == calls[Len(calls)].batch

\* Variant of PromiseAll that is over with the first call that settles.
PromiseAll_race(cs, batch) ==
    \E n \in DOMAIN cs : cs[n].batch = batch /\ cs[n].state # "pending"

\* :46  await Promise.all(promises): every call of the slice has settled.
PromiseAll(cs, batch) ==
    \A n \in DOMAIN cs : cs[n].batch = batch => cs[n].state # "pending"

\* :64-82  the command's action.
SumLaunch ==
    /\ pc = "launch"
    /\ IF options.server
       THEN pc' = "start" /\ err' = err
       ELSE pc' = "failed" /\ err' = <<"Server URL is required">>
    /\ UNCHANGED <<cacheVars, toc, idx, i, res, generatedSection, partIdx,
                   docParts, docState, pages, runs, hist, options, extVars>>

\* :19  getFiles
SumStart(found) ==
    /\ pc = "start"
    /\ filesByKey' = found
    /\ keyIdx' = 0
    /\ pc' = "key"
    /\ UNCHANGED <<cacheVars, toc, idx, i, res, generatedSection, partIdx,
                   docParts, docState, pages, runs, err, hist, options,
                   filesToProcess, sliceIdx, calls, saves, output, oaVars>>

\* :22-28  the next key: the files without a summary in the context are cut
\* into slices; chunkArray reads the length of the last chunk (:12), which
\* throws when there is no chunk.
SumKey ==
    /\ pc = "key"
    /\ keyIdx < Len(filesByKey)
    /\ keyIdx' = keyIdx + 1
    /\ LET l == loadContext(CONTEXT, disk, useContext)
           context == l.ret
           todo == SelectSeq(filesByKey[keyIdx + 1],
                             LAMBDA f : ~(f \in DOMAIN context /\ Truthy(context[f])))
       IN  /\ CONTEXT' = l.CONTEXT
           /\ filesToProcess' = todo
           /\ IF chunkArray(todo, BatchSize).threw
              THEN pc' = "failed" /\ err' = chunkArray(todo, BatchSize).error
              ELSE pc' = "slice" /\ err' = err
    /\ sliceIdx' = 0
    /\ UNCHANGED <<disk, last, saved, otherWrites, toc, idx, i, res,
                   generatedSection, partIdx, docParts, docState, pages, runs,
                   hist, options, filesByKey, calls, saves, output, oaVars>>

\* :29-45  the next slice: one call per file, all issued before the await.
SumIssue ==
    /\ pc = "slice"
    /\ sliceIdx < Len(slices)
    /\ sliceIdx' = sliceIdx + 1
    /\ LET slice == slices[sliceIdx + 1]
           batch == NextBatch
       IN  calls' = calls \o [n \in 1..Len(slice) |->
                                [file |-> slice[n], batch |-> batch, state |-> "pending"]]
    /\ pc' = "await"
    /\ UNCHANGED <<cacheVars, toc, idx, i, res, generatedSection, partIdx,
                   docParts, docState, pages, runs, err, hist, options,
                   filesByKey, keyIdx, filesToProcess, saves, output, oaVars>>

\* :37-41  a call resolves: saveToContext is called and not awaited; it runs
\* up to its own await of loadContext (index.ts:392) and is suspended there.
SumResolve(n) ==
    /\ n \in DOMAIN calls
    /\ calls[n].state = "pending"
    /\ calls' = [calls EXCEPT ![n].state = "resolved"]
    /\ LET l == loadContext(CONTEXT, disk, useContext)
           file == calls[n].file
       IN  /\ CONTEXT' = l.CONTEXT
           /\ saves' = Append(saves, [contextData |-> l.ret,
                                      data |-> [f \in {file} |-> Summary(file)]])
    /\ UNCHANGED <<disk, last, saved, otherWrites, pc, toc, idx, i, res,
                   generatedSection, partIdx, docParts, docState, pages, runs,
                   err, hist, options, filesByKey, keyIdx, filesToProcess,
                   sliceIdx, output, oaVars>>

\* index.ts:392-403  the oldest suspended saveToContext goes on: it merges
\* its data into the mapping it had loaded, writes the file, sets the mirror.
SumSave ==
    /\ saves # <<>>
    /\ LET s == saveToContext_afterAwait(disk, useContext, Head(saves).contextData,
                                         Head(saves).data)
       IN  /\ CONTEXT' = s.CONTEXT
           /\ disk' = s.disk
    /\ saves' = Tail(saves)
    /\ saved' = TRUE
    /\ UNCHANGED <<last, otherWrites, pc, toc, idx, i, res, generatedSection,
                   partIdx, docParts, docState, pages, runs, err, hist, options,
                   filesByKey, keyIdx, filesToProcess, sliceIdx, calls, output, oaVars>>

\* :42-44  a call rejects: the file is skipped.
SumReject(n) ==
    /\ n \in DOMAIN calls
    /\ calls[n].state = "pending"
    /\ calls' = [calls EXCEPT ![n].state = "rejected"]
    /\ UNCHANGED <<cacheVars, pc, toc, idx, i, res, generatedSection, partIdx,
                   docParts, docState, pages, runs, err, hist, options,
                   filesByKey, keyIdx, filesToProcess, sliceIdx, saves, output, oaVars>>

\* :46  the await of the slice is over. A suspended saveToContext goes on one
\* job after its call resolved, the promise of the slice several jobs after
\* its last call settled: no save is suspended when the await is over.
SumAwaited ==
    /\ pc = "await"
    /\ PromiseAll(calls, CurrentBatch)
    /\ saves = <<>>
    /\ pc' = "slice"
    /\ UNCHANGED <<cacheVars, toc, idx, i, res, generatedSection, partIdx,
                   docParts, docState, pages, runs, err, hist, options, extVars>>

\* :29, :47  no slice is left: on to the next key.
SumSlicesDone ==
    /\ pc = "slice"
    /\ sliceIdx = Len(slices)
    /\ pc' = "key"
    /\ UNCHANGED <<cacheVars, toc, idx, i, res, generatedSection, partIdx,
                   docParts, docState, pages, runs, err, hist, options, extVars>>

\* :50-57  no key is left: the state is loaded and written out.
SumDone ==
    /\ pc = "key"
    /\ keyIdx = Len(filesByKey)
    /\ LET l == loadContext(CONTEXT, disk, useContext)
       IN  /\ CONTEXT' = l.CONTEXT
           /\ output' = [written |-> TRUE, state |-> l.ret]
    /\ pc' = "done"
    /\ UNCHANGED <<disk, last, saved, otherWrites, toc, idx, i, res,
                   generatedSection, partIdx, docParts, docState, pages, runs,
                   err, hist, options, filesByKey, keyIdx, filesToProcess,
                   sliceIdx, calls, saves, oaVars>>

\* The files whose call rejected (:42-44) and that have no summary in the
\* context file.
Skipped ==
    {calls[n].file : n \in {m \in DOMAIN calls : calls[m].state = "rejected"}}
        \ {f \in DOMAIN FileMap(disk, useContext) :
               Truthy(FileMap(disk, useContext)[f])}

\* The summarizer is invoked again on the same context: a new process. What
\* the run that is over was given and what it skipped is kept in hist.
SumRerun ==
    /\ pc \in {"done", "failed"}
    /\ runs < MaxRuns
    /\ runs' = runs + 1
    /\ hist' = [hist EXCEPT !.prev = [pc |-> pc, idx |-> keyIdx,
                                      found |-> filesByKey, skipped |-> Skipped]]
    /\ CONTEXT' = NoContext
    /\ saved' = FALSE
    /\ pc' = "launch"
    /\ err' = <<>>
    /\ filesByKey' = <<>>
    /\ keyIdx' = 0
    /\ filesToProcess' = <<>>
    /\ sliceIdx' = 0
    /\ calls' = <<>>
    /\ saves' = <<>>
    /\ output' = NoOutput
    /\ UNCHANGED <<disk, last, otherWrites, toc, idx, i, res, generatedSection,
                   partIdx, docParts, docState, pages, options, oaVars>>

SumNext ==
    \/ SumLaunch
    \/ \E found \in FilesByKeys : SumStart(found)
    \/ SumKey
    \/ SumIssue
    \/ \E n \in DOMAIN calls : SumResolve(n)
    \/ SumSave
    \/ \E n \in DOMAIN calls : SumReject(n)
    \/ SumAwaited
    \/ SumSlicesDone
    \/ SumDone
    \/ SumRerun

SpecSum == GenInit /\ [][SumNext]_vars

(***************************************************************************)
(* The OpenAPI generator (src/generate-openapi.ts): a table of paths, one  *)
(* call per path, a table of types, one call per type, then the document   *)
(* is put together from the context.                                       *)
(***************************************************************************)
MaxPaths == 2
MaxTypes == 2
\* Remote calls of units a model run may issue in all.
MaxCalls == 4

PathTable == <<"pathA", "pathB", "pathC", "pathD">>
TypeTable == <<"TypeA", "TypeB", "TypeC", "TypeD">>
\* :295-300  pathSection
pathSection(k) == [id |-> PathTable[k], operation |-> "create", name |-> PathTable[k]]
\* What generateToc answers for the paths and for the types: a table, or nothing.
PathTocs == {Obj([paths |-> [k \in 1..n |-> pathSection(k)]]) : n \in 0..MaxPaths}
                \cup {Undefined}
TypeTocs == {Obj([types |-> SubSeq(TypeTable, 1, n)]) : n \in 0..MaxTypes}
                \cup {Undefined}

\* The texts a path call answers: YAML, YAML inside a code block, nothing,
\* or a text that is no YAML.
Yaml == [pathA |-> "yaml pathA", pathB |-> "yaml pathB", pathC |-> "yaml pathC",
         pathD |-> "yaml pathD"]
Fenced == [pathA |-> "~~~yaml pathA~~~", pathB |-> "~~~yaml pathB~~~",
           pathC |-> "~~~yaml pathC~~~", pathD |-> "~~~yaml pathD~~~"]
NotYaml == "a: [b"
PathResults(id) == {Yaml[id], Fenced[id], "", NotYaml}
Schema == [TypeA |-> "schema TypeA", TypeB |-> "schema TypeB",
           TypeC |-> "schema TypeC", TypeD |-> "schema TypeD"]
TypeResults(name) == {Str(Schema[name]), Str("")}

\* :263-265  the markers of a code block (written ~~~ here) are taken out of
\* the text.
removeCodeBlockMarkers(text) ==
    IF \E id \in DOMAIN Fenced : Fenced[id] = text
    THEN Yaml[CHOOSE id \in DOMAIN Fenced : Fenced[id] = text]
    ELSE text

\* :252-261  the text without markers, when YAML.parse accepts it.
validateYaml(text) ==
    LET generatedPart == removeCodeBlockMarkers(text)
    IN  [ok |-> generatedPart # NotYaml, value |-> Str(generatedPart)]

\* The keys that start with 'g-': the keys generatePart saves under
\* (generate-api-doc.ts:66), in the order of the sections and parts.
GKeyTable == [s1 |-> [p1 |-> "g-s1-p1", p2 |-> "g-s1-p2", p3 |-> "g-s1-p3"],
              s2 |-> [p1 |-> "g-s2-p1", p2 |-> "g-s2-p2", p3 |-> "g-s2-p3"],
              s3 |-> [p1 |-> "g-s3-p1", p2 |-> "g-s3-p2", p3 |-> "g-s3-p3"],
              s4 |-> [p1 |-> "g-s4-p1", p2 |-> "g-s4-p2", p3 |-> "g-s4-p3"],
              s5 |-> [p1 |-> "g-s5-p1", p2 |-> "g-s5-p2", p3 |-> "g-s5-p3"]]
PartIdTable == <<"p1", "p2", "p3">>
GKeyOrder == [n \in 1..15 |-> GKeyTable[SlugTable[((n - 1) \div 3) + 1]][PartIdTable[((n - 1) % 3) + 1]]]
\* k.startsWith("g-")
startsWithG(k) == \E n \in DOMAIN GKeyOrder : GKeyOrder[n] = k

\* JSON.stringify of an array: an undefined element is written as null.
JSONstringifyArray(arr) ==
    Str([json |-> [n \in DOMAIN arr |-> IF arr[n] = Undefined THEN Null ELSE arr[n]]])

\* :199-212  the context without its 'g-' keys, and the values under them
\* (in the order of GKeyOrder; the order of insertion is not kept here).
getAlreadyGenerated(ctx, dsk) ==
    LET l == loadContext(ctx, dsk, useContext)
        context == l.ret
        gkeys == SelectSeq(GKeyOrder, LAMBDA k : k \in DOMAIN context)
    IN  [context |-> [k \in {x \in DOMAIN context : ~startsWithG(x)} |-> context[k]],
         alreadyGenerated |-> [n \in DOMAIN gkeys |-> context[gkeys[n]]],
         CONTEXT |-> l.CONTEXT]

\* :227-232, :177-182  promptData of a path or type call
UnitPrompt(a, id) ==
    Spread(a.context, [already_generated |-> JSONstringifyArray(a.alreadyGenerated),
                       part_name |-> Str(id),
                       instruction |-> Str(<<"Generate", id>>)])

\* A call of a unit, as it is issued: what it is for, what it was given and
\* what the context held.
UnitCall(fn, key, promptData, ctx, dsk) ==
    [fn |-> fn, key |-> key, promptData |-> promptData,
     cache |-> loadContext(ctx, dsk, useContext).ret, run |-> runs,
     state |-> "pending", value |-> Undefined]
\* A unit found in the context: no call.
UnitFound(fn, key, value) ==
    [fn |-> fn, key |-> key, promptData |-> EmptyMap, cache |-> EmptyMap,
     run |-> runs, state |-> "cached", value |-> value]
SettleLast(cs, state, value) ==
    [cs EXCEPT ![Len(cs)].state = state, ![Len(cs)].value = value]
UnitCalls == {n \in DOMAIN calls : calls[n].state # "cached"}

\* JavaScript v[key] for a key that is no index: a string has no such
\* property, an object has the properties it holds.
Index(v, key) ==
    IF v.type = "object" /\ key \in DOMAIN v.obj THEN v.obj[key] ELSE Undefined

\* :268-281  the command's action.
OaLaunch ==
    /\ pc = "launch"
    /\ IF options.server
       THEN pc' = "start" /\ err' = err
       ELSE pc' = "failed" /\ err' = <<"Server URL is required">>
    /\ UNCHANGED <<cacheVars, toc, idx, i, res, generatedSection, partIdx,
                   docParts, docState, pages, runs, hist, options, extVars>>

\* :46-57  prepareContext, then the table of paths is looked up.
OaStart ==
    /\ pc = "start"
    /\ LET s1 == saveToContext(CONTEXT, disk, useContext,
                               [k \in {"serverApi"} |-> getFilesContent("serverApi")])
           s2 == saveToContext(s1.CONTEXT, s1.disk, useContext, EmptyMap)
           t == getFromContext(s2.CONTEXT, s2.disk, useContext, "toc")
       IN  /\ CONTEXT' = t.CONTEXT
           /\ disk' = s2.disk
           /\ IF Truthy(t.ret)
              THEN /\ toc' = t.ret.obj
                   /\ pc' = "paths"
              ELSE /\ toc' = toc
                   /\ pc' = "tocCall"
    /\ idx' = 0
    /\ typeIdx' = 0
    /\ sectionIds' = <<>>
    /\ UNCHANGED <<last, saved, otherWrites, i, res, generatedSection, partIdx,
                   docParts, docState, pages, runs, hist, options, filesByKey,
                   keyIdx, filesToProcess, sliceIdx, saves, output, unit, calls,
                   err, typesToc, builder, pos, specFile>>

\* :58-77  generateToc resolved: nothing throws, a table is saved.
OaTocReturn(t) ==
    /\ pc = "tocCall"
    /\ IF ~Truthy(t)
       THEN /\ pc' = "failed"
            /\ err' = <<"Failed to generate Table of Content">>
            /\ UNCHANGED <<CONTEXT, disk, toc>>
       ELSE /\ LET s == saveToContext(CONTEXT, disk, useContext, [k \in {"toc"} |-> t])
               IN  CONTEXT' = s.CONTEXT /\ disk' = s.disk
            /\ toc' = t.obj
            /\ pc' = "paths"
            /\ err' = err
    /\ UNCHANGED <<last, saved, otherWrites, i, res, generatedSection, partIdx,
                   docParts, docState, pages, runs, hist, options, filesByKey,
                   keyIdx, filesToProcess, sliceIdx, saves, output, unit, calls,
                   idx, typeIdx, sectionIds, typesToc, builder, pos, specFile>>

\* :58, :98  generateToc rejected: generate throws.
OaTocReject(message) ==
    /\ pc \in {"tocCall", "typesTocCall"}
    /\ pc' = "failed"
    /\ err' = Rethrown(message)
    /\ UNCHANGED <<cacheVars, toc, idx, i, res, generatedSection, partIdx,
                   docParts, docState, pages, runs, hist, options, extVars>>

\* :86-87, :219-241  generatePath for the next path: returned from the
\* context, or asked from the remote service.
OaPath ==
    /\ pc = "paths"
    /\ idx < Len(toc.paths)
    /\ LET path == toc.paths[idx + 1]
           g == getFromContext(CONTEXT, disk, useContext, path.id)
           a == getAlreadyGenerated(g.CONTEXT, disk)
       IN  IF Truthy(g.ret)
           THEN /\ CONTEXT' = g.CONTEXT
                /\ calls' = Append(calls, UnitFound("generatePath", path.id, g.ret))
                /\ sectionIds' = Append(sectionIds, path.id)
                /\ idx' = idx + 1
                /\ pc' = pc
           ELSE /\ Cardinality(UnitCalls) < MaxCalls
                /\ CONTEXT' = a.CONTEXT
                /\ calls' = Append(calls, UnitCall("generatePath", path.id,
                                                   UnitPrompt(a, path.id), a.CONTEXT, disk))
                /\ sectionIds' = sectionIds
                /\ idx' = idx
                /\ pc' = "pathCall"
    /\ UNCHANGED <<disk, last, saved, otherWrites, toc, i, res, generatedSection,
                   partIdx, docParts, docState, pages, runs, err, hist, options,
                   filesByKey, keyIdx, filesToProcess, sliceIdx, saves, output,
                   typesToc, typeIdx, builder, pos, specFile, unit>>

\* :244-248, :88  the path call resolved: the text is validated and saved.
OaPathResolve(text) ==
    /\ pc = "pathCall"
    /\ LET path == toc.paths[idx + 1]
           result == validateYaml(text)
       IN  IF result.ok
           THEN /\ LET s == saveToContext(CONTEXT, disk, useContext,
                                          [k \in {path.id} |-> result.value])
                   IN  CONTEXT' = s.CONTEXT /\ disk' = s.disk
                /\ calls' = SettleLast(calls, "saved", result.value)
                /\ sectionIds' = Append(sectionIds, path.id)
                /\ idx' = idx + 1
                /\ pc' = "paths"
                /\ err' = err
           ELSE /\ calls' = SettleLast(calls, "invalid", Str(text))
                /\ pc' = "failed"
                /\ err' = <<"YAMLParseError">>
                /\ UNCHANGED <<CONTEXT, disk, sectionIds, idx>>
    /\ UNCHANGED <<last, saved, otherWrites, i, res, generatedSection, partIdx,
                   docParts, docState, pages, runs, hist, options, filesByKey,
                   keyIdx, filesToProcess, sliceIdx, saves, output, unit, toc,
                   typesToc, typeIdx, builder, pos, specFile>>

OaPathReturn ==
    /\ pc = "pathCall"
    /\ \E text \in PathResults(toc.paths[idx + 1].id) : OaPathResolve(text)

\* :235, :183  the call of a path or of a type rejected: generate throws.
OaUnitReject(message) ==
    /\ pc \in {"pathCall", "typeCall"}
    /\ calls' = SettleLast(calls, "rejected", Undefined)
    /\ pc' = "failed"
    /\ err' = Rethrown(message)
    /\ UNCHANGED <<cacheVars, toc, idx, i, res, generatedSection, partIdx,
                   docParts, docState, pages, runs, hist, options, filesByKey,
                   keyIdx, filesToProcess, sliceIdx, saves, output, oaVars>>

\* :92-97  every path is done: the table of types is looked up.
OaTypesToc ==
    /\ pc = "paths"
    /\ idx = Len(toc.paths)
    /\ LET t == getFromContext(CONTEXT, disk, useContext, "typesToc")
       IN  /\ CONTEXT' = t.CONTEXT
           /\ IF Truthy(t.ret)
              THEN /\ typesToc' = t.ret.obj
                   /\ pc' = "types"
              ELSE /\ typesToc' = typesToc
                   /\ pc' = "typesTocCall"
    /\ UNCHANGED <<disk, last, saved, otherWrites, toc, idx, i, res,
                   generatedSection, partIdx, docParts, docState, pages, runs,
                   err, hist, options, filesByKey, keyIdx, filesToProcess,
                   sliceIdx, calls, saves, output, typeIdx, sectionIds, builder,
                   pos, specFile, unit>>

\* :98-115  generateToc resolved for the types.
OaTypesTocReturn(t) ==
    /\ pc = "typesTocCall"
    /\ IF ~Truthy(t)
       THEN /\ pc' = "failed"
            /\ err' = <<"Failed to generate Table of Content">>
            /\ UNCHANGED <<CONTEXT, disk, typesToc>>
       ELSE /\ LET s == saveToContext(CONTEXT, disk, useContext,
                                      [k \in {"typesToc"} |-> t])
               IN  CONTEXT' = s.CONTEXT /\ disk' = s.disk
            /\ typesToc' = t.obj
            /\ pc' = "types"
            /\ err' = err
    /\ UNCHANGED <<last, saved, otherWrites, i, res, generatedSection, partIdx,
                   docParts, docState, pages, runs, hist, options, filesByKey,
                   keyIdx, filesToProcess, sliceIdx, saves, output, unit, calls,
                   toc, idx, typeIdx, sectionIds, builder, pos, specFile>>

\* :122-123, :169-189  generateType for the next type.
OaType ==
    /\ pc = "types"
    /\ typeIdx < Len(typesToc.types)
    /\ LET typeName == typesToc.types[typeIdx + 1]
           g == getFromContext(CONTEXT, disk, useContext, typeName)
           a == getAlreadyGenerated(g.CONTEXT, disk)
       IN  IF Truthy(g.ret)
           THEN /\ CONTEXT' = g.CONTEXT
                /\ calls' = Append(calls, UnitFound("generateType", typeName, g.ret))
                /\ typeIdx' = typeIdx + 1
                /\ pc' = pc
           ELSE /\ Cardinality(UnitCalls) < MaxCalls
                /\ CONTEXT' = a.CONTEXT
                /\ calls' = Append(calls, UnitCall("generateType", typeName,
                                                   UnitPrompt(a, typeName), a.CONTEXT, disk))
                /\ typeIdx' = typeIdx
                /\ pc' = "typeCall"
    /\ UNCHANGED <<disk, last, saved, otherWrites, toc, idx, i, res,
                   generatedSection, partIdx, docParts, docState, pages, runs,
                   err, hist, options, filesByKey, keyIdx, filesToProcess,
                   sliceIdx, saves, output, typesToc, sectionIds, builder, pos,
                   specFile, unit>>

\* :191-194  the type call resolved: the result is saved.
OaTypeResolve(result) ==
    /\ pc = "typeCall"
    /\ LET typeName == typesToc.types[typeIdx + 1]
           s == saveToContext(CONTEXT, disk, useContext, [k \in {typeName} |-> result])
       IN  CONTEXT' = s.CONTEXT /\ disk' = s.disk
    /\ calls' = SettleLast(calls, "saved", result)
    /\ typeIdx' = typeIdx + 1
    /\ pc' = "types"
    /\ UNCHANGED <<last, saved, otherWrites, i, res, generatedSection, partIdx,
                   docParts, docState, pages, runs, hist, options, filesByKey,
                   keyIdx, filesToProcess, sliceIdx, saves, output, unit, toc,
                   idx, err, typesToc, sectionIds, builder, pos, specFile>>

OaTypeReturn ==
    /\ pc = "typeCall"
    /\ \E result \in TypeResults(typesToc.types[typeIdx + 1]) : OaTypeResolve(result)

\* Variant of OaAssemble that starts as soon as the paths are done.
OaAssemble_beforeTypes ==
    /\ pc \in {"types", "typeCall"}
    /\ builder' = NoBuilder
    /\ pos' = 0
    /\ pc' = "addPaths"
    /\ UNCHANGED <<cacheVars, toc, idx, i, res, generatedSection, partIdx,
                   docParts, docState, pages, runs, err, hist, options,
                   filesByKey, keyIdx, filesToProcess, sliceIdx, calls, saves,
                   output, typesToc, typeIdx, sectionIds, specFile, unit>>

\* :122, :127  every type is done: a new builder.
OaAssemble ==
    /\ pc = "types"
    /\ typeIdx = Len(typesToc.types)
    /\ builder' = NoBuilder
    /\ pos' = 0
    /\ pc' = "addPaths"
    /\ UNCHANGED <<cacheVars, toc, idx, i, res, generatedSection, partIdx,
                   docParts, docState, pages, runs, err, hist, options,
                   filesByKey, keyIdx, filesToProcess, sliceIdx, calls, saves,
                   output, typesToc, typeIdx, sectionIds, specFile, unit>>

\* :128-131  the next path is read from the context and added; reading a
\* property of null throws.
OaAddPath ==
    /\ pc = "addPaths"
    /\ pos < Len(sectionIds)
    /\ LET pathId == sectionIds[pos + 1]
           g == getFromContext(CONTEXT, disk, useContext, pathId)
           path == g.ret
       IN  /\ CONTEXT' = g.CONTEXT
           /\ IF path = Null
              THEN /\ pc' = "failed"
                   /\ err' = <<"TypeError">>
                   /\ UNCHANGED <<builder, pos>>
              ELSE /\ builder' = [builder EXCEPT !.paths =
                                     Append(@, [id |-> pathId, item |-> Index(path, pathId)])]
                   /\ pos' = pos + 1
                   /\ pc' = pc
                   /\ err' = err
    /\ UNCHANGED <<disk, last, saved, otherWrites, toc, idx, i, res,
                   generatedSection, partIdx, docParts, docState, pages, runs,
                   hist, options, filesByKey, keyIdx, filesToProcess, sliceIdx,
                   calls, saves, output, typesToc, typeIdx, sectionIds, specFile,
                   unit>>

\* :128, :133  every path is added: on to the types.
OaPathsAdded ==
    /\ pc = "addPaths"
    /\ pos = Len(sectionIds)
    /\ pos' = 0
    /\ pc' = "addSchemas"
    /\ UNCHANGED <<cacheVars, toc, idx, i, res, generatedSection, partIdx,
                   docParts, docState, pages, runs, err, hist, options,
                   filesByKey, keyIdx, filesToProcess, sliceIdx, calls, saves,
                   output, typesToc, typeIdx, sectionIds, builder, specFile, unit>>

\* :133-136  the next type is read from the context and added.
OaAddSchema ==
    /\ pc = "addSchemas"
    /\ pos < Len(typesToc.types)
    /\ LET typeName == typesToc.types[pos + 1]
           g == getFromContext(CONTEXT, disk, useContext, typeName)
           type == g.ret
       IN  /\ CONTEXT' = g.CONTEXT
           /\ IF type = Null
              THEN /\ pc' = "failed"
                   /\ err' = <<"TypeError">>
                   /\ UNCHANGED <<builder, pos>>
              ELSE /\ builder' = [builder EXCEPT !.schemas =
                                     Append(@, [id |-> typeName, item |-> Index(type, typeName)])]
                   /\ pos' = pos + 1
                   /\ pc' = pc
                   /\ err' = err
    /\ UNCHANGED <<disk, last, saved, otherWrites, toc, idx, i, res,
                   generatedSection, partIdx, docParts, docState, pages, runs,
                   hist, options, filesByKey, keyIdx, filesToProcess, sliceIdx,
                   calls, saves, output, typesToc, typeIdx, sectionIds, specFile,
                   unit>>

\* :138-155  info and security scheme are added and the document is written.
OaWrite ==
    /\ pc = "addSchemas"
    /\ pos = Len(typesToc.types)
    /\ specFile' = [written |-> TRUE, run |-> runs,
                    doc |-> [info |-> [title |-> "OpenAPI Spec", version |-> "1.0.0"],
                             paths |-> builder.paths,
                             schemas |-> builder.schemas,
                             securitySchemes |-> {"bearer"}]]
    /\ pc' = "done"
    /\ UNCHANGED <<cacheVars, toc, idx, i, res, generatedSection, partIdx,
                   docParts, docState, pages, runs, err, hist, options,
                   filesByKey, keyIdx, filesToProcess, sliceIdx, calls, saves,
                   output, typesToc, typeIdx, sectionIds, builder, pos, unit>>

\* The generator is invoked again on the same context: a new process; the
\* context file and openapi-spec.yaml stay.
OaRerun ==
    /\ pc \in {"done", "failed"}
    /\ runs < MaxRuns
    /\ runs' = runs + 1
    /\ CONTEXT' = NoContext
    /\ saved' = FALSE
    /\ pc' = "launch"
    /\ err' = <<>>
    /\ toc' = NoToc
    /\ idx' = 0
    /\ typesToc' = NoTypesToc
    /\ typeIdx' = 0
    /\ sectionIds' = <<>>
    /\ builder' = NoBuilder
    /\ pos' = 0
    /\ UNCHANGED <<disk, last, otherWrites, i, res, generatedSection, partIdx,
                   docParts, docState, pages, hist, options, filesByKey, keyIdx,
                   filesToProcess, sliceIdx, calls, saves, output, specFile, unit>>

OaNext ==
    \/ OaLaunch
    \/ OaStart
    \/ \E t \in PathTocs : OaTocReturn(t)
    \/ \E message \in Messages : OaTocReject(message)
    \/ OaPath
    \/ OaPathReturn
    \/ \E message \in Messages : OaUnitReject(message)
    \/ OaTypesToc
    \/ \E t \in TypeTocs : OaTypesTocReturn(t)
    \/ OaType
    \/ OaTypeReturn
    \/ OaAssemble
    \/ OaAddPath
    \/ OaPathsAdded
    \/ OaAddSchema
    \/ OaWrite
    \/ OaRerun

SpecOpenApi == GenInit /\ [][OaNext]_vars

(***************************************************************************)
(* generateSection and generatePart (src/generate-api-doc.ts:28-95), as a  *)
(* caller invokes generateSection for the sections of an outline, in any   *)
(* order and any number of times.                                          *)
(***************************************************************************)
UnitPart(j) == [id |-> PartIdTable[j], name |-> PartTitleTable[j]]
\* Section k of the outline has k modulo (MaxParts + 1) parts.
UnitSection(k) ==
    [id |-> SlugTable[k], name |-> TitleTable[k],
     parts |-> [j \in 1..(k % (MaxParts + 1)) |-> UnitPart(j)]]
UnitSections == {UnitSection(k) : k \in 1..MaxSections}

\* res.result of the call of a unit: a text (named after the key of the
\* unit here), or the empty text.
UnitResults(key) == {Str(key), Str("")}

\* :66  `g-${section.id}-${part.id}`
partId(sec, prt) == GKeyTable[sec.id][prt.id]

\* :30-43  generateSection: the section is looked up; when it is not in the
\* context, the context is loaded and its 'g-' values are collected.
UnitsBegin(sec) ==
    /\ pc = "idle"
    /\ LET g == getFromContext(CONTEXT, disk, useContext, sec.id)
           a == getAlreadyGenerated(g.CONTEXT, disk)
           l == loadContext(g.CONTEXT, disk, useContext)
       IN  /\ CONTEXT' = l.CONTEXT
           /\ IF Truthy(g.ret)
              THEN /\ calls' = Append(calls, UnitFound("generateSection", sec.id, g.ret))
                   /\ Len(calls) < MaxCalls
                   /\ unit' = unit
                   /\ pc' = pc
              ELSE /\ calls' = calls
                   /\ unit' = [active |-> TRUE, section |-> sec, context |-> l.ret,
                               alreadyGenerated |-> a.alreadyGenerated,
                               contextForPrompt |-> a.context, parts |-> <<>>]
                   /\ pc' = "unitParts"
    /\ partIdx' = 0
    /\ UNCHANGED <<disk, last, saved, otherWrites, toc, idx, i, res,
                   generatedSection, docParts, docState, pages, runs, err, hist,
                   options, filesByKey, keyIdx, filesToProcess, sliceIdx, saves,
                   output, typesToc, typeIdx, sectionIds, builder, pos, specFile>>

\* :44-45, :66-85  generatePart for the next part of the section.
UnitsPart ==
    /\ pc = "unitParts"
    /\ partIdx < Len(unit.section.parts)
    /\ LET key == partId(unit.section, unit.section.parts[partIdx + 1])
           g == getFromContext(CONTEXT, disk, useContext, key)
           a == getAlreadyGenerated(g.CONTEXT, disk)
           promptData ==
               Spread(a.context,
                      [already_generated |-> JSONstringifyArray(a.alreadyGenerated),
                       part_name |-> Str(<<"section:", unit.section.id, "part:",
                                           unit.section.parts[partIdx + 1].id>>),
                       instruction |-> Str(<<"Generate the part", key>>)])
       IN  /\ CONTEXT' = a.CONTEXT
           /\ IF Truthy(g.ret)
              THEN /\ calls' = Append(calls, UnitFound("generatePart", key, g.ret))
                   /\ unit' = [unit EXCEPT !.parts = Append(@, g.ret)]
                   /\ partIdx' = partIdx + 1
                   /\ pc' = pc
              ELSE /\ Cardinality(UnitCalls) < MaxCalls
                   /\ calls' = Append(calls, UnitCall("generatePart", key, promptData,
                                                      a.CONTEXT, disk))
                   /\ unit' = unit
                   /\ partIdx' = partIdx
                   /\ pc' = "unitPartCall"
    /\ UNCHANGED <<disk, last, saved, otherWrites, toc, idx, i, res,
                   generatedSection, docParts, docState, pages, runs, err, hist,
                   options, filesByKey, keyIdx, filesToProcess, sliceIdx, saves,
                   output, typesToc, typeIdx, sectionIds, builder, pos, specFile>>

\* :88-93, :46  the part call resolved: the result is saved and pushed.
UnitsPartResolve(result) ==
    /\ LET key == partId(unit.section, unit.section.parts[partIdx + 1])
           s == saveToContext(CONTEXT, disk, useContext, [k \in {key} |-> result])
       IN  CONTEXT' = s.CONTEXT /\ disk' = s.disk
    /\ calls' = SettleLast(calls, "saved", result)
    /\ unit' = [unit EXCEPT !.parts = Append(@, result)]
    /\ partIdx' = partIdx + 1
    /\ pc' = "unitParts"
    /\ err' = err
    /\ UNCHANGED <<last, saved, otherWrites, toc, idx, i, res,
                   generatedSection, docParts, docState, pages, runs, hist,
                   options, filesByKey, keyIdx, filesToProcess, sliceIdx, saves,
                   output, typesToc, typeIdx, sectionIds, builder, pos, specFile>>

UnitsPartReturn ==
    /\ pc = "unitPartCall"
    /\ \E result \in UnitResults(partId(unit.section, unit.section.parts[partIdx + 1])) :
           UnitsPartResolve(result)

\* :49-57  the parts are done: the call for the section, with the context
\* loaded at :36.
UnitsSectionCall ==
    /\ pc = "unitParts"
    /\ partIdx = Len(unit.section.parts)
    /\ Cardinality(UnitCalls) < MaxCalls
    /\ LET promptData ==
               Spread(unit.context,
                      [already_generated |-> JSONstringifyArray(unit.alreadyGenerated),
                       part_name |-> Str(unit.section.id),
                       instruction |-> Str(<<"Generate the section:", unit.section.id>>)])
       IN  calls' = Append(calls, UnitCall("generateSection", unit.section.id,
                                          promptData, CONTEXT, disk))
    /\ pc' = "unitSectionCall"
    /\ UNCHANGED <<cacheVars, toc, idx, i, res, generatedSection, partIdx,
                   docParts, docState, pages, runs, err, hist, options,
                   filesByKey, keyIdx, filesToProcess, sliceIdx, saves, output,
                   oaVars>>

\* :57-62  the section call resolved: the result is saved.
UnitsSectionResolve(result) ==
    /\ LET s == saveToContext(CONTEXT, disk, useContext,
                              [k \in {unit.section.id} |-> result])
       IN  CONTEXT' = s.CONTEXT /\ disk' = s.disk
    /\ calls' = SettleLast(calls, "saved", result)
    /\ unit' = NoUnit
    /\ pc' = "idle"
    /\ err' = err
    /\ partIdx' = partIdx
    /\ UNCHANGED <<last, saved, otherWrites, toc, idx, i, res,
                   generatedSection, docParts, docState, pages, runs, hist,
                   options, filesByKey, keyIdx, filesToProcess, sliceIdx, saves,
                   output, typesToc, typeIdx, sectionIds, builder, pos, specFile>>

UnitsSectionReturn ==
    /\ pc = "unitSectionCall"
    /\ \E result \in UnitResults(unit.section.id) : UnitsSectionResolve(result)

\* :57, :88  a call rejected: executeGeneration throws, and so does
\* generateSection.
UnitsReject(message) ==
    /\ pc \in {"unitPartCall", "unitSectionCall"}
    /\ calls' = SettleLast(calls, "rejected", Undefined)
    /\ unit' = NoUnit
    /\ pc' = "idle"
    /\ err' = Rethrown(message)
    /\ UNCHANGED <<cacheVars, toc, idx, i, res, generatedSection, partIdx,
                   docParts, docState, pages, runs, hist, options, filesByKey,
                   keyIdx, filesToProcess, sliceIdx, saves, output, typesToc,
                   typeIdx, sectionIds, builder, pos, specFile>>

UnitsNext ==
    \/ \E sec \in UnitSections : UnitsBegin(sec)
    \/ UnitsPart
    \/ UnitsPartReturn
    \/ UnitsSectionCall
    \/ UnitsSectionReturn
    \/ \E message \in Messages : UnitsReject(message)

\* No context file, no mirror, no call in progress.
UnitsInit ==
    /\ CONTEXT = NoContext
    /\ disk = [f \in ContextNames |-> NoFile]
    /\ last = NoOp
    /\ saved = FALSE
    /\ otherWrites = 0
    /\ GenIdle

SpecUnits == UnitsInit /\ [][UnitsNext]_vars

(***************************************************************************)
(* Cache scenarios: a caller loads, gets and saves in any order, and the   *)
(* process may be restarted (the mirror is lost, the files stay).          *)
(***************************************************************************)
CacheInit ==
    /\ CONTEXT = NoContext
    /\ disk = [f \in ContextNames |-> NoFile]
    /\ last = NoOp
    /\ saved = FALSE
    /\ otherWrites = 0
    /\ GenIdle

Load(name) ==
    LET l == loadContext(CONTEXT, disk, name) IN
    /\ CONTEXT' = l.CONTEXT
    /\ last' = [op |-> "load", name |-> name, ret |-> l.ret,
                after |-> IF last.op = "restart" THEN last ELSE NoOp]
    /\ UNCHANGED <<disk, saved, otherWrites, genVars, extVars>>

Get(name, key) ==
    LET g == getFromContext(CONTEXT, disk, name, key) IN
    /\ CONTEXT' = g.CONTEXT
    /\ last' = [op |-> "get", name |-> name, key |-> key, ret |-> g.ret,
                before |-> loadContext(CONTEXT, disk, name).ret,
                fileBefore |-> disk]
    /\ UNCHANGED <<disk, saved, otherWrites, genVars, extVars>>

Save(name, data) ==
    LET s == saveToContext(CONTEXT, disk, name, data) IN
    /\ CONTEXT' = s.CONTEXT
    /\ disk' = s.disk
    /\ saved' = TRUE
    /\ last' = [op |-> "save", name |-> name, data |-> data,
                before |-> loadContext(CONTEXT, disk, name).ret,
                mirrorBefore |-> CONTEXT, fileBefore |-> FileMap(disk, name)]
    /\ UNCHANGED <<otherWrites, genVars, extVars>>

\* The process ends and a new one starts: the mirror is lost, the files stay.
Restart ==
    /\ CONTEXT' = NoContext
    /\ saved' = FALSE
    /\ last' = [op |-> "restart", held |-> CONTEXT, saved |-> saved]
    /\ UNCHANGED <<disk, otherWrites, genVars, extVars>>

CacheNext ==
    \/ \E name \in ContextNames : Load(name)
    \/ \E name \in ContextNames, key \in Keys : Get(name, key)
    \/ \E name \in ContextNames, data \in Partials : Save(name, data)
    \/ Restart

SpecCache == CacheInit /\ [][CacheNext]_vars

(***************************************************************************)
(* Lookups of entries of every kind of value: a caller saves one entry at  *)
(* a time, truthy or falsy, and gets it back.                              *)
(***************************************************************************)
GetVals == {Undefined, Null, Num(0), Num(1), Str(""), Str("x"),
            Bool(FALSE), Bool(TRUE)}
GetSaves == {[k \in {key} |-> v] : key \in Keys, v \in GetVals}

GetNext ==
    \/ \E name \in ContextNames : Load(name)
    \/ \E name \in ContextNames, key \in Keys : Get(name, key)
    \/ \E name \in ContextNames, data \in GetSaves : Save(name, data)
    \/ Restart

SpecGet == CacheInit /\ [][GetNext]_vars

(***************************************************************************)
(* The same scenarios with a second process of the program that saves to   *)
(* the same context file (its own mirror is its own).                      *)
(***************************************************************************)
OtherWriter(name, data) ==
    /\ otherWrites < MaxOtherWrites
    /\ otherWrites' = otherWrites + 1
    /\ disk' = saveToContext(NoContext, disk, name, data).disk
    /\ UNCHANGED <<CONTEXT, last, saved, genVars, extVars>>

SharedNext ==
    \/ CacheNext
    \/ \E name \in ContextNames, data \in OneKeyPartials : OtherWriter(name, data)

SpecShared == CacheInit /\ [][SharedNext]_vars

(***************************************************************************)
(* prepareContext (src/index.ts:540-562): the files of each -f key:glob are *)
(* saved under the key, then the -d key:value items are saved.              *)
(***************************************************************************)
\* A -d item as typed: "key:value", or "key" alone.
DataItems == {[key |-> k, colon |-> c] : k \in Keys, c \in BOOLEAN}

\* :555  const [key, value] = item.split(':'): without a colon the value is
\* undefined.
SplitValue(item) == IF item.colon THEN Str("value") ELSE Undefined

\* :553-558  the record built from the -d items (at most one item here).
DataOf(items) ==
    [k \in {items[x].key : x \in 1..Len(items)} |->
        SplitValue(items[CHOOSE x \in 1..Len(items) :
                             /\ items[x].key = k
                             /\ \A y \in (x + 1)..Len(items) : items[y].key # k])]

\* index.ts:454-460  getFilesContent(files): '' when the glob matched no file.
FilesContent(key, found) == IF found THEN getFilesContent(key) ELSE Str("")

\* prepareContext with one -f key:glob and the -d items.
PrepareContext(name, fkey, found, items) ==
    LET s1 == saveToContext(CONTEXT, disk, name,
                            [k \in {fkey} |-> FilesContent(fkey, found)])
        s2 == saveToContext(s1.CONTEXT, s1.disk, name, DataOf(items))
    IN  /\ CONTEXT' = s2.CONTEXT
        /\ disk' = s2.disk
        /\ saved' = TRUE
        /\ last' = [op |-> "prepare", name |-> name, fkey |-> fkey,
                    data |-> DataOf(items),
                    before |-> loadContext(CONTEXT, disk, name).ret,
                    mirrorBefore |-> CONTEXT, fileBefore |-> FileMap(disk, name)]
        /\ UNCHANGED <<otherWrites, genVars, extVars>>

PrepareNext ==
    \/ CacheNext
    \/ \E name \in ContextNames, fkey \in Keys, found \in BOOLEAN,
          items \in {<<>>} \cup {<<d>> : d \in DataItems} :
           PrepareContext(name, fkey, found, items)

SpecPrepare == CacheInit /\ [][PrepareNext]_vars

(***************************************************************************)
(* Renderer scenarios: generateDocFromParts applied to a record of         *)
(* generated sections (in insertion order), each with its parts.           *)
(***************************************************************************)
MaxDocSections == 3
MaxDocParts == 3

DocPartOf(k, j) ==
    [title |-> PartTitleTable[j],
     content |-> <<TitleTable[k], " > ", PartTitleTable[j]>>]
DocSectionOf(k, nparts) ==
    [defined |-> TRUE, slug |-> SlugTable[k], title |-> TitleTable[k],
     content |-> <<TitleTable[k]>>,
     parts |-> [j \in 1..nparts |-> DocPartOf(k, j)]]
DocPartsSet ==
    UNION {{[k \in 1..len |-> DocSectionOf(k, f[k])] :
                f \in [1..len -> 0..MaxDocParts]} : len \in 0..MaxDocSections}

RenderInit ==
    /\ ExtIdle
    /\ CONTEXT = NoContext
    /\ disk = [f \in ContextNames |-> NoFile]
    /\ last = NoOp
    /\ saved = FALSE
    /\ otherWrites = 0
    /\ pc = "render"
    /\ toc = NoToc
    /\ idx = 0
    /\ i = 0
    /\ res = NoRes
    /\ generatedSection = NoSection
    /\ partIdx = 0
    /\ docParts \in DocPartsSet
    /\ docState = <<>>
    /\ pages = EmptyMap
    /\ runs = 0
    /\ err = <<>>
    /\ hist = NoHist
    /\ options = [server |-> TRUE]

Render ==
    /\ pc = "render"
    /\ docState' = generateDocFromParts(docParts)
    /\ pc' = "rendered"
    /\ UNCHANGED <<extVars, cacheVars, toc, idx, i, res, generatedSection, partIdx,
                   docParts, pages, runs, err, hist,
                   options>>

RenderNext == Render

SpecRender == RenderInit /\ [][RenderNext]_vars

(***************************************************************************)
(* Claims about the content cache.                                         *)
(***************************************************************************)
A1B2 == [k \in {"a", "b"} |-> IF k = "a" THEN Num(1) ELSE Num(2)]
A3B2 == [k \in {"a", "b"} |-> IF k = "a" THEN Num(3) ELSE Num(2)]
A3   == [k \in {"a"} |-> Num(3)]

\* C5: after save(ctx, P) on a stored mapping M, load(ctx) returns the mapping
\* with P's value for every key of P and M's value for every other key of M.
C5_CacheMerge ==
    last.op = "save" =>
        LET L == loadContext(CONTEXT, disk, last.name).ret
            M == last.before
            P == last.data
        IN  /\ DOMAIN L = (DOMAIN M) \cup (DOMAIN P)
            /\ \A k \in DOMAIN P : L[k] = P[k]
            /\ \A k \in (DOMAIN M) \ (DOMAIN P) : L[k] = M[k]

\* C5 witness: {a:1, b:2} is stored, {a:3} has been saved, load gives {a:3, b:2}.
C5_Witness ==
    /\ last.op = "save"
    /\ last.before = A1B2
    /\ last.data = A3
    /\ loadContext(CONTEXT, disk, last.name).ret = A3B2

\* C7 (as claimed): a key K that the file of ctx holds and the mirror does not
\* hold when save(ctx, P) starts (and that P does not set) is in the file and
\* in the mirror, with its disk value, after the save.
C7_SaveMergesDisk ==
    last.op = "save" =>
        \A K \in ((DOMAIN last.fileBefore) \ (DOMAIN last.mirrorBefore.map))
                     \ (DOMAIN last.data) :
            /\ K \in DOMAIN FileMap(disk, last.name)
            /\ FileMap(disk, last.name)[K] = last.fileBefore[K]
            /\ K \in DOMAIN CONTEXT.map
            /\ CONTEXT.map[K] = last.fileBefore[K]

\* C8 (as claimed): once a save has completed in the run, the mirror holds
\* exactly the mapping last written to the context file.
C8_MirrorEqualsDisk ==
    saved => \A name \in ContextNames : CONTEXT.map = FileMap(disk, name)

\* C8 (amended): once a save has completed in the run, the mirror is a
\* superset-consistent copy of the file: every key of the file is in the
\* mirror with the same value, and a key of the mirror that the file lacks
\* has the value undefined.
C8_MirrorSupersetOfDisk ==
    saved =>
        \A name \in ContextNames :
            LET F == FileMap(disk, name) IN
            /\ CONTEXT.set
            /\ \A k \in DOMAIN F : k \in DOMAIN CONTEXT.map /\ CONTEXT.map[k] = F[k]
            /\ \A k \in (DOMAIN CONTEXT.map) \ (DOMAIN F) : CONTEXT.map[k] = Undefined

\* C8 witness: two saves have completed and the mirror holds a key with a
\* defined value and a key saved as undefined.
C8_Witness ==
    /\ saved
    /\ last.op = "save"
    /\ last.mirrorBefore.set
    /\ \E k \in DOMAIN CONTEXT.map : CONTEXT.map[k] = Undefined
    /\ \E k \in DOMAIN CONTEXT.map : CONTEXT.map[k] # Undefined

\* C9 (as claimed): the load that follows a restart returns the mapping, with
\* the same keys and values, that the saves had left in the mirror.
C9_RoundTrip ==
    (last.op = "load" /\ last.after.op = "restart" /\ last.after.saved) =>
        last.ret = last.after.held.map

\* C9 (amended): the load that follows a restart returns the mapping the saves
\* had left, without the keys whose value was undefined: every key held with
\* a defined value comes back with the same value, and no other key does.
C9_RoundTripDefined ==
    (last.op = "load" /\ last.after.op = "restart" /\ last.after.saved) =>
        LET held == last.after.held.map IN
        /\ DOMAIN last.ret = {k \in DOMAIN held : held[k] # Undefined}
        /\ \A k \in DOMAIN last.ret : last.ret[k] = held[k]

\* C9 witness: a mapping with two defined keys was saved, the process was
\* restarted and the load has returned.
C9_Witness ==
    /\ last.op = "load"
    /\ last.after.op = "restart"
    /\ last.after.saved
    /\ last.ret = A1B2

(***************************************************************************)
(* Claims about the renderer.                                              *)
(***************************************************************************)
\* The contents of a section: its own, then those of its parts in order.
SectionContents(sec) ==
    <<sec.content>> \o [j \in 1..Len(sec.parts) |-> sec.parts[j].content]

RECURSIVE Concatenation(_)
Concatenation(parts) ==
    IF parts = <<>>
    THEN <<>>
    ELSE Concatenation(SubSeq(parts, 1, Len(parts) - 1))
             \o SectionContents(parts[Len(parts)])

Contains(doc, content) == \E x \in 1..Len(doc) : doc[x] = content

\* C6: the rendered document is the concatenation, in section order, of each
\* section's content followed by its parts' content in part order, so the
\* content of every section appears in it.
C6_RenderConcatenates ==
    pc = "rendered" =>
        /\ docState = Concatenation(docParts)
        /\ \A k \in 1..Len(docParts) : Contains(docState, docParts[k].content)

(***************************************************************************)
(* Claims about the section walk.                                          *)
(***************************************************************************)
Slugs == {SlugTable[k] : k \in 1..MaxSections}
Marked(m, slug) == SectionKey(slug) \in DOMAIN m /\ Truthy(m[SectionKey(slug)])

\* C1: a section whose key 'section-{id}' is in the cache when generate
\* starts gets no remote call in the run, and the value under its key stays
\* what it was, in the file and in the mirror.
C1_ResumptionIdempotence ==
    \A slug \in Slugs :
        SectionKey(slug) \in DOMAIN hist.atStart =>
            /\ slug \notin hist.called
            /\ ~(pc \in {"sectionCall", "partCall", "wait"} /\ section.slug = slug)
            /\ SectionKey(slug) \in DOMAIN FileMap(disk, useContext)
            /\ FileMap(disk, useContext)[SectionKey(slug)] = hist.atStart[SectionKey(slug)]
            /\ CONTEXT.set =>
                   /\ SectionKey(slug) \in DOMAIN CONTEXT.map
                   /\ CONTEXT.map[SectionKey(slug)] = hist.atStart[SectionKey(slug)]

\* C1 witness: a resumed run that found s1 marked, skipped it, generated s2
\* and went on.
C1_Witness ==
    /\ runs = 2
    /\ SectionKey("s1") \in DOMAIN hist.atStart
    /\ SectionKey("s2") \notin DOMAIN hist.atStart
    /\ "s2" \in hist.called
    /\ pc = "walk"
    /\ idx = 3

\* C2: the marker of a section is saved only when its section call and every
\* one of its part calls succeeded; a run whose unit failed on all 5 attempts,
\* or hit a non-transient error, stops with no marker and no page for it.
C2_DoneOnlyOnSuccess ==
    /\ pc = "write" =>
           /\ hist.failures < MaxAttempts
           /\ Len(generatedSection.parts) = Len(section.parts)
    /\ (pc \in {"failed", "returned"} /\ idx >= 1) =>
           /\ ~Marked(FileMap(disk, useContext), section.slug)
           /\ (section.slug \in DOMAIN pages => section.slug \notin hist.called)
    /\ hist.failures >= MaxAttempts => pc \in {"wait", "afterLoop", "returned"}

\* C3: for a section without parts whose call fails transiently k times
\* (0 <= k <= 4) and then succeeds, the unit is marked after exactly k+1
\* attempts; when all 5 attempts fail there is no sixth attempt, the run
\* stops and no marker is written.
C3_RetryBoundary ==
    /\ hist.attempts <= MaxAttempts
    /\ (pc \in {"afterLoop", "write", "returned"} /\ Len(section.parts) = 0) =>
           IF res.defined
           THEN /\ hist.failures <= MaxAttempts - 1
                /\ hist.attempts = hist.failures + 1
                /\ pc # "returned"
                /\ pc = "write" => Marked(FileMap(disk, useContext), section.slug)
           ELSE /\ hist.failures = MaxAttempts
                /\ hist.attempts = MaxAttempts
                /\ pc # "write"
                /\ ~Marked(FileMap(disk, useContext), section.slug)

\* C4: when S1, S2 and S3 are generated in that order in one run, the
\* previously_generated of the prompt for S3 contains the content of S1 and
\* of S2 (and of their parts) and not that of S3, and the prompt for S1
\* contains the content of neither S2 nor S3.
C4_PreviouslyGenerated ==
    (pc = "sectionCall" /\ hist.prompt.kind = "section") =>
        /\ (idx = 3 /\ {"s1", "s2"} \subseteq hist.called) =>
               /\ \A slug \in {"s1", "s2"} :
                      /\ slug \in DOMAIN pages
                      /\ \A x \in 1..Len(SectionContents(pages[slug])) :
                             Contains(hist.prompt.previously_generated,
                                      SectionContents(pages[slug])[x])
               /\ ~Contains(hist.prompt.previously_generated, SectionName(section))
        /\ idx = 1 =>
               \A k \in 2..Len(toc.sections) :
                   ~Contains(hist.prompt.previously_generated,
                             SectionName(toc.sections[k]))

\* The first section of a table of contents with no marker in a cache.
FirstPending(t, m) ==
    LET pending == {k \in 1..Len(t.sections) : ~Marked(m, t.sections[k].slug)}
    IN  IF pending = {} THEN 0
        ELSE CHOOSE k \in pending : \A other \in pending : k <= other

\* C10: when a run stops on a failure at section k, the file still holds the
\* 'toc' entry and the marker of every section before k; the next invocation
\* issues no TOC call and its first remote call is the call of the first
\* section, in TOC order, that has no marker.
C10_ResumeAfterFailure ==
    /\ (pc \in {"failed", "returned"} /\ idx >= 1) =>
           /\ "toc" \in DOMAIN FileMap(disk, useContext)
           /\ FileMap(disk, useContext)["toc"] = Obj(toc)
           /\ \A k \in 1..(idx - 1) :
                  Marked(FileMap(disk, useContext), toc.sections[k].slug)
    /\ (hist.prev.pc \in {"failed", "returned"} /\ hist.prev.idx >= 1
            /\ pc # "start") =>
           /\ hist.tocCalls = 0
           /\ pc # "tocCall"
           /\ hist.firstCall # NoCall =>
                  /\ FirstPending(toc, hist.atStart) # 0
                  /\ hist.firstCall =
                         [kind |-> "section",
                          slug |-> toc.sections[FirstPending(toc, hist.atStart)].slug]

\* C10 witness: the first run stopped at section 2, and the second run has
\* issued its first call, for section 2.
C10_Witness ==
    /\ runs = 2
    /\ hist.prev.pc \in {"failed", "returned"}
    /\ hist.prev.idx = 2
    /\ hist.firstCall = [kind |-> "section", slug |-> "s2"]
    /\ hist.tocCalls = 0

(***************************************************************************)
(* Claims about the table of contents.                                     *)
(***************************************************************************)
\* C11: the TOC call is issued only when the cache holds no 'toc' entry; once
\* the TOC call has succeeded the entry 'toc' is in the context file before
\* any section is generated; and a run that follows a run which had obtained
\* its TOC issues no TOC call.
C11_TocOnlyWhenAbsent ==
    /\ hist.tocCalls > 0 =>
           ~("toc" \in DOMAIN hist.atStart /\ Truthy(hist.atStart["toc"]))
    /\ (idx >= 1 /\ pc # "launch") =>
           /\ "toc" \in DOMAIN FileMap(disk, useContext)
           /\ FileMap(disk, useContext)["toc"] = Obj(toc)
    /\ hist.prev.idx >= 1 => hist.tocCalls = 0

\* C12: a run issues at most one TOC call; when that call rejects, generate
\* fails with the error 'Failed to generate part: ' + the original message,
\* no second call was made and the context file holds no 'toc' entry.
C12_TocCallOnce ==
    /\ hist.tocCalls <= 1
    /\ (pc = "failed" /\ idx = 0) =>
           /\ hist.tocCalls = 1
           /\ hist.called = {}
           /\ Len(err) >= 2
           /\ err[1] = "Failed to generate part:"
           /\ SubSeq(err, 2, Len(err)) \in Messages
           /\ toc = NoToc
           /\ "toc" \notin DOMAIN FileMap(disk, useContext)

\* C12 witness: the TOC call was rejected with a 500 message and generate has
\* failed after that single call.
C12_Witness ==
    /\ pc = "failed"
    /\ idx = 0
    /\ hist.tocCalls = 1
    /\ err = <<"Failed to generate part:", "500", "Internal Server Error">>

(***************************************************************************)
(* Claims about the retry loop.                                            *)
(***************************************************************************)
\* The text of an error contains '500'.
Has500(text) == \E x \in 1..Len(text) : text[x] = "500"

\* C13: a failed call of a unit is followed by a wait (and a new attempt while
\* attempts remain) exactly when its message contains '500'; a failure whose
\* message does not contain '500' makes generate throw that error at once:
\* no later section is called and the unit gets no marker.
C13_ErrorClassification ==
    /\ pc = "wait" => Has500(hist.rejected)
    /\ (pc = "failed" /\ idx >= 1) =>
           /\ ~Has500(hist.rejected)
           /\ err = hist.rejected
           /\ ~Marked(FileMap(disk, useContext), section.slug)
           /\ \A k \in (idx + 1)..Len(toc.sections) :
                  toc.sections[k].slug \notin hist.called
    /\ (hist.rejected # <<>> /\ Has500(hist.rejected)) => pc # "failed"

\* C13 witness: a unit failed once with a 500, was attempted again, and then
\* failed with a message without '500': generate has thrown.
C13_Witness ==
    /\ pc = "failed"
    /\ idx >= 1
    /\ hist.failures = 1
    /\ hist.attempts = 2
    /\ err = <<"Failed to generate part:", "503", "Service Unavailable">>

\* C14: a section call that fails with a transient error is attempted again,
\* and once all 5 attempts of the section call have failed generate ends with
\* an error (it throws) and not with a normal return.
C14_ExhaustionSurfaced ==
    /\ (pc = "failed" /\ idx >= 1) => ~Has500(hist.rejected)
    /\ (hist.failures = MaxAttempts /\ ~res.defined) =>
           pc \in {"wait", "afterLoop", "failed"}

C16_NoServerIsFatal ==
    ~options.server =>
        /\ hist.firstCall = NoCall
        /\ hist.tocCalls = 0
        /\ \A name \in ContextNames : ~disk[name].exists
        /\ pages = EmptyMap
        /\ pc \notin {"finished", "returned"}

(***************************************************************************)
(* Claims about the order of the remote calls.                             *)
(***************************************************************************)
\* The position of a section in the table of contents.
Pos(slug) == CHOOSE k \in 1..Len(SlugTable) : SlugTable[k] = slug

C18_OneCallInFlight ==
    /\ hist.inflight \in {0, 1}
    /\ hist.inflight = 1 <=> pc \in {"tocCall", "sectionCall", "partCall"}

\* C18 witness: the call of a part is in flight, issued after the call of its
\* section had resolved.
C18_Witness ==
    /\ pc = "partCall"
    /\ hist.inflight = 1
    /\ hist.lastIssued.kind = "part"
    /\ hist.prevIssued.kind = "section"

(***************************************************************************)
(* Claims about the end of a run.                                          *)
(***************************************************************************)
\* C19: a walk that ended normally has every section of the TOC marked, or
\* one of its units failed on all 5 attempts; a walk that ended with an error
\* got a failure whose message does not contain '500'. A run never ends right
\* after a call that succeeded while sections remain.
C19_StopReasons ==
    /\ pc = "finished" =>
           \A k \in 1..Len(toc.sections) :
               Marked(FileMap(disk, useContext), toc.sections[k].slug)
    /\ (pc = "failed" /\ idx >= 1) => ~Has500(err)
    /\ pc = "returned" => hist.failures = MaxAttempts

(***************************************************************************)
(* Claims about the permanence of the entries.                             *)
(***************************************************************************)
\* C20: a key that the context file holds with a truthy value keeps that
\* value through prepareContext, in the file and for getFromContext (a unit
\* with that key is still skipped).
C20_DonePermanent ==
    last.op = "prepare" =>
        \A k \in {x \in DOMAIN last.fileBefore : Truthy(last.fileBefore[x])} :
            /\ k \in DOMAIN FileMap(disk, last.name)
            /\ FileMap(disk, last.name)[k] = last.fileBefore[k]
            /\ getFromContext(CONTEXT, disk, last.name, k).ret = last.fileBefore[k]

(***************************************************************************)
(* Claims about the lookups.                                               *)
(***************************************************************************)
\* The falsy values of JavaScript that a cache entry can hold.
Falsy == {Undefined, Null, Num(0), Str(""), Bool(FALSE)}

\* C21: get(name, key) returns the stored value when the key is present with
\* a truthy value and null when the key is missing or its value is falsy;
\* the context file and the mapping that load returns are what they were.
C21_GetTruthyOnly ==
    last.op = "get" =>
        LET M == last.before IN
        /\ (last.key \in DOMAIN M /\ M[last.key] \notin Falsy) => last.ret = M[last.key]
        /\ (last.key \notin DOMAIN M \/ M[last.key] \in Falsy) => last.ret = Null
        /\ disk = last.fileBefore
        /\ loadContext(CONTEXT, disk, last.name).ret = M

\* C21 witness: the entry 'a' holds false and the entry 'b' holds 'x'; the
\* get of 'a' has returned null.
C21_Witness ==
    /\ last.op = "get"
    /\ last.key = "a"
    /\ DOMAIN last.before = {"a", "b"}
    /\ last.before["a"] = Bool(FALSE)
    /\ last.before["b"] = Str("x")
    /\ last.ret = Null

(***************************************************************************)
(* Claims about the file summarizer.                                       *)
(***************************************************************************)
Pending == {n \in DOMAIN calls : calls[n].state = "pending"}

\* C22: at most one slice of calls (50 in the source, BatchSize here) is in
\* flight at any time, and no call of a later slice is issued while a call
\* of an earlier slice has neither resolved nor rejected.
C22_BatchedFanOut ==
    /\ Cardinality(Pending) <= BatchSize
    /\ \A a, b \in DOMAIN calls :
          calls[a].batch < calls[b].batch => calls[a].state # "pending"

\* C22 witness: a call of the second slice is in flight after one call of
\* the first slice resolved and the other one rejected.
C22_Witness ==
    \E a, b, c \in DOMAIN calls :
        /\ calls[a].batch = 1 /\ calls[a].state = "resolved"
        /\ calls[b].batch = 1 /\ calls[b].state = "rejected"
        /\ calls[c].batch = 2 /\ calls[c].state = "pending"

\* The await of the last slice issued is over.
BatchAwaited == pc \in {"slice", "key", "done"}

\* C23: once a slice has been awaited, the mirror and the file hold the
\* summary of every file whose call resolved.
C23_NoLostSummary ==
    BatchAwaited =>
        \A n \in DOMAIN calls :
            calls[n].state = "resolved" =>
                LET file == calls[n].file IN
                /\ CONTEXT.set
                /\ file \in DOMAIN CONTEXT.map
                /\ CONTEXT.map[file] = Summary(file)
                /\ file \in DOMAIN FileMap(disk, useContext)
                /\ FileMap(disk, useContext)[file] = Summary(file)

(***************************************************************************)
(* Claims about the Done marker.                                           *)
(***************************************************************************)
\* C26: the step that marks a section Done adds the key 'section-{id}' with
\* the section's entry of the table of contents as its value, and leaves
\* every other key with its value, in the file and in the mirror.
C26_MarkerFrame ==
    [][(pc = "afterLoop" /\ pc' = "write") =>
          LET key == SectionKey(section.slug)
              fileBefore == FileMap(disk, useContext)
              fileAfter == FileMap(disk', useContext)
              mirrorBefore == loadContext(CONTEXT, disk, useContext).ret
          IN  /\ key \notin DOMAIN fileBefore
              /\ DOMAIN fileAfter = DOMAIN fileBefore \cup {key}
              /\ fileAfter[key] = Obj(section)
              /\ \A k \in DOMAIN fileBefore : fileAfter[k] = fileBefore[k]
              /\ CONTEXT'.set
              /\ DOMAIN CONTEXT'.map = DOMAIN mirrorBefore \cup {key}
              /\ CONTEXT'.map[key] = Obj(section)
              /\ \A k \in DOMAIN mirrorBefore \ {key} :
                    CONTEXT'.map[k] = mirrorBefore[k]]_vars

\* C26 witness: the second section has just been marked; the file holds the
\* table of contents and the markers of both sections.
C26_Witness ==
    /\ pc = "write"
    /\ idx = 2
    /\ "toc" \in DOMAIN FileMap(disk, useContext)
    /\ FileMap(disk, useContext)[SectionKey(SlugTable[1])] = Obj(toc.sections[1])
    /\ FileMap(disk, useContext)[SectionKey(SlugTable[2])] = Obj(toc.sections[2])

(***************************************************************************)
(* Claims about the waits of the retry loop.                               *)
(***************************************************************************)
\* C28: the wait after the k-th failed attempt of a unit is 30 s for k = 1,
\* 2, 3 and 3^k s for k >= 4 (81 s after the fourth failure), and a wait is
\* never shorter than the wait before it in the same unit.
C28_BackoffSchedule ==
    /\ [](pc = "wait" =>
            /\ hist.failures = i + 1
            /\ hist.failures \in 1..MaxAttempts
            /\ hist.wait = 1000 * (IF hist.failures <= 3 THEN 30 ELSE 3 ^ hist.failures)
            /\ (hist.failures = 4 => hist.wait = 81 * 1000))
    /\ [][(pc # "wait" /\ pc' = "wait" /\ hist'.failures > 1) =>
              hist'.wait >= hist.wait]_vars

\* C28 witness: the fifth attempt of a unit failed and the walk waits 243 s.
C28_Witness ==
    /\ pc = "wait"
    /\ hist.failures = 5
    /\ hist.wait = 243 * 1000

(***************************************************************************)
(* Claims about the loads.                                                 *)
(***************************************************************************)
\* C29: a load returns the mirror when the process has one; otherwise what
\* the context file of that name holds; and the empty mapping when there is
\* no such file, in which case no file is created. No load changes a file.
C29_LoadSources ==
    [][last'.op = "load" =>
          LET file == getContextFileName(last'.name) IN
          /\ CONTEXT.set => last'.ret = CONTEXT.map
          /\ (~CONTEXT.set /\ disk[file].exists) =>
                 last'.ret = FileMap(disk, last'.name)
          /\ (~CONTEXT.set /\ ~disk[file].exists) =>
                 /\ last'.ret = EmptyMap
                 /\ ~disk'[file].exists
          /\ disk' = disk]_vars

\* C29 witness: a load found neither a mirror nor a file and returned the
\* empty mapping; there is still no file.
C29_Witness ==
    /\ last.op = "load"
    /\ last.ret = EmptyMap
    /\ ~CONTEXT.set
    /\ ~disk[getContextFileName(last.name)].exists

(***************************************************************************)
(* Claims about the parts of a written section.                            *)
(***************************************************************************)
\* The generated section g has one part per part of the entry s of the table
\* of contents, in the order of the entry.
PartsOf(g, s) ==
    /\ Len(g.parts) = Len(s.parts)
    /\ \A j \in 1..Len(s.parts) : g.parts[j].title = s.parts[j].title

\* C30: a section that is marked Done and whose page is written holds exactly
\* one generated part per part of its entry of the table of contents, in the
\* declared order.
C30_PartsComplete ==
    /\ pc = "write" => PartsOf(generatedSection, section)
    /\ \A k \in 1..Len(toc.sections) :
          LET s == toc.sections[k] IN
          (s.slug \in DOMAIN pages /\ Marked(FileMap(disk, useContext), s.slug)) =>
              PartsOf(pages[s.slug], s)

(***************************************************************************)
(* Claims about the units of the OpenAPI generator.                        *)
(***************************************************************************)
\* C24: a remote call is issued for a unit only when the context has nothing
\* under the unit's key; once a call for the unit succeeded, the result is
\* in the context under that key and every later request for the unit is
\* answered from the context with that value, without a remote call.
C24_OncePerUnit ==
    /\ \A n \in UnitCalls : calls[n].key \notin DOMAIN calls[n].cache
    /\ \A m, n \in DOMAIN calls :
          (m < n /\ calls[m].key = calls[n].key /\ calls[m].state = "saved") =>
              /\ calls[n].state = "cached"
              /\ calls[n].value = calls[m].value
    /\ \A n \in DOMAIN calls :
          calls[n].state = "saved" =>
              /\ calls[n].key \in DOMAIN FileMap(disk, useContext)
              /\ FileMap(disk, useContext)[calls[n].key] = calls[n].value

\* The unit of that key was generated or found in the context in this run.
Handled(key) ==
    \E n \in DOMAIN calls :
        /\ calls[n].run = runs
        /\ calls[n].key = key
        /\ calls[n].state \in {"saved", "cached"}
\* The paths of the table, once there is one.
TocPaths == IF "paths" \in DOMAIN toc THEN toc.paths ELSE <<>>
Assembling == pc \in {"addPaths", "addSchemas", "done"}

\* The builder is filled only once every path and every type of the two
\* tables was generated or found, in the order of the tables, one entry per
\* path and per type, and the document is written after the last entry.
AssemblyOrder ==
    /\ Assembling =>
           /\ \A k \in 1..Len(TocPaths) : Handled(TocPaths[k].id)
           /\ \A k \in 1..Len(typesToc.types) : Handled(typesToc.types[k])
    /\ (~Assembling /\ pc # "failed") => builder = NoBuilder
    /\ Len(builder.paths) <= Len(TocPaths)
    /\ \A n \in DOMAIN builder.paths : builder.paths[n].id = TocPaths[n].id
    /\ Len(builder.schemas) <= Len(typesToc.types)
    /\ \A n \in DOMAIN builder.schemas : builder.schemas[n].id = typesToc.types[n]
    /\ (specFile.written /\ specFile.run = runs) <=> pc = "done"
    /\ pc = "done" =>
           /\ Len(builder.paths) = Len(TocPaths)
           /\ Len(builder.schemas) = Len(typesToc.types)
           /\ specFile.doc.paths = builder.paths
           /\ specFile.doc.schemas = builder.schemas

\* C27: the document is put together only after every path and every type
\* was generated or found in the context; each of them is then in the
\* builder exactly once, under its own id or name, and the document is
\* written after the last of them was added.
C27_AssemblyAfterGeneration ==
    /\ AssemblyOrder
    /\ \A n \in DOMAIN builder.paths :
          builder.paths[n].item =
              loadContext(CONTEXT, disk, useContext).ret[builder.paths[n].id]
    /\ \A n \in DOMAIN builder.schemas :
          builder.schemas[n].item =
              loadContext(CONTEXT, disk, useContext).ret[builder.schemas[n].id]

(***************************************************************************)
(* Claims about the prompts of the units.                                  *)
(***************************************************************************)
\* The values a mapping holds under its keys that start with 'g-'.
GValues(m) ==
    LET gkeys == SelectSeq(GKeyOrder, LAMBDA k : k \in DOMAIN m)
    IN  [n \in DOMAIN gkeys |-> m[gkeys[n]]]

\* C25: the prompt data of every call of a unit has no key that starts with
\* 'g-', and its already_generated is the serialization of the values the
\* context holds under such keys when the call is issued.
C25_PromptWithoutMemoKeys ==
    \A n \in UnitCalls :
        /\ \A k \in DOMAIN calls[n].promptData : ~startsWithG(k)
        /\ calls[n].promptData["already_generated"] =
               JSONstringifyArray(GValues(calls[n].cache))

(***************************************************************************)
(* The section walk of generate with a process that can be killed at any   *)
(* point of the run and invoked again on the same context: the mirror and  *)
(* the locals are lost, the context file and the pages stay.               *)
(***************************************************************************)
Running == pc \notin {"finished", "failed", "returned"}

Crash ==
    /\ Running
    /\ runs < MaxRuns
    /\ runs' = runs + 1
    /\ CONTEXT' = NoContext
    /\ saved' = FALSE
    /\ pc' = "launch"
    /\ toc' = NoToc
    /\ idx' = 0
    /\ i' = 0
    /\ res' = NoRes
    /\ generatedSection' = NoSection
    /\ partIdx' = 0
    /\ docParts' = <<>>
    /\ docState' = <<>>
    /\ err' = <<>>
    /\ hist' = [NoHist EXCEPT !.prev = [pc |-> pc, idx |-> idx]]
    /\ UNCHANGED <<extVars, disk, last, otherWrites, pages, options>>

CrashNext ==
    \/ Next
    \/ Crash

SpecCrash == GenInit /\ [][CrashNext]_vars

\* C31: every section whose marker 'section-{slug}' is in the context file
\* has its page in the output directory, in every state outside the step
\* between the save of the marker and the write of the page of one run, a
\* run that follows a crash included.
C31_DoneImpliesOutput ==
    pc # "write" =>
        \A slug \in Slugs :
            Marked(FileMap(disk, useContext), slug) => slug \in DOMAIN pages

(***************************************************************************)
(* Two named contexts used by one process (src/index.ts:335-404): the      *)
(* callers of the first name store entries under the key "a" only, the     *)
(* callers of the second under the key "b" only.                           *)
(***************************************************************************)
otherContext == "other"
NamedContexts == {useContext, otherContext}
KeyOf(name) == IF name = useContext THEN "a" ELSE "b"
NamedSaves(name) == {[k \in {KeyOf(name)} |-> Num(x)] : x \in 1..MaxVal}

NamedInit ==
    /\ CONTEXT = NoContext
    /\ disk = [f \in NamedContexts |-> NoFile]
    /\ last = NoOp
    /\ saved = FALSE
    /\ otherWrites = 0
    /\ GenIdle

NamedNext ==
    \/ \E name \in NamedContexts : Load(name)
    \/ \E name \in NamedContexts, key \in Keys : Get(name, key)
    \/ \E name \in NamedContexts : \E data \in NamedSaves(name) : Save(name, data)
    \/ Restart

SpecNamed == NamedInit /\ [][NamedNext]_vars

\* C32: an entry stored only under one context name is never in the file of
\* another name and is never returned by a load or a get under another name.
C32_NamedContextsIsolated ==
    \A name \in NamedContexts :
        LET foreign == Keys \ {KeyOf(name)} IN
        /\ \A k \in foreign : k \notin DOMAIN FileMap(disk, name)
        /\ (last.op = "load" /\ last.name = name) =>
               \A k \in foreign : k \notin DOMAIN last.ret
        /\ (last.op = "get" /\ last.name = name /\ last.key \in foreign) =>
               last.ret = Null

(***************************************************************************)
(* chunkArray (src/unnamed/part_001:5-14) applied to every array of up to  *)
(* MaxArrayLen items with every chunk size from 1 to MaxChunkSize.         *)
(***************************************************************************)
MaxArrayLen == 4
MaxChunkSize == 3

ChunkItems == {FileTable[1], FileTable[2]}
ChunkArrays == UNION {[1..n -> ChunkItems] : n \in 0..MaxArrayLen}

ChunkInit ==
    /\ CONTEXT = NoContext
    /\ disk = [f \in ContextNames |-> NoFile]
    /\ last = NoOp
    /\ saved = FALSE
    /\ otherWrites = 0
    /\ pc = "idle"
    /\ toc = NoToc
    /\ idx = 0
    /\ i = 0
    /\ res = NoRes
    /\ generatedSection = NoSection
    /\ partIdx = 0
    /\ docParts = <<>>
    /\ docState = <<>>
    /\ pages = EmptyMap
    /\ runs = 0
    /\ err = <<>>
    /\ hist = NoHist
    /\ options = [server |-> TRUE]
    /\ filesByKey = <<>>
    /\ keyIdx = 0
    /\ filesToProcess \in ChunkArrays
    /\ sliceIdx = 0
    /\ calls = <<>>
    /\ saves = <<>>
    /\ output = NoOutput
    /\ typesToc = NoTypesToc
    /\ typeIdx = 0
    /\ sectionIds = <<>>
    /\ builder = NoBuilder
    /\ pos = 0
    /\ specFile = NoSpecFile
    /\ unit = NoUnit

\* chunkArray(filesToProcess, chunkSize) is called; `last` keeps the call.
ChunkCall(chunkSize) ==
    /\ last' = [op |-> "chunkArray", arr |-> filesToProcess, chunkSize |-> chunkSize,
                out |-> chunkArray(filesToProcess, chunkSize)]
    /\ UNCHANGED <<CONTEXT, disk, saved, otherWrites, genVars, extVars>>

ChunkNext == \E chunkSize \in 1..MaxChunkSize : ChunkCall(chunkSize)

SpecChunk == ChunkInit /\ [][ChunkNext]_vars

\* The concatenation of the chunks, in order.
RECURSIVE Flatten(_)
Flatten(chunks) ==
    IF chunks = <<>> THEN <<>> ELSE Head(chunks) \o Flatten(Tail(chunks))

\* C34: for every array, the empty one included, and every chunk size n >= 1
\* chunkArray returns chunks whose concatenation is the array, each of 1 to n
\* elements and each but the last of exactly n elements.
C34_ChunksPartition ==
    last.op = "chunkArray" =>
        /\ ~last.out.threw
        /\ LET chunks == last.out.ret
               n == last.chunkSize
           IN  /\ Flatten(chunks) = last.arr
               /\ \A k \in DOMAIN chunks : Len(chunks[k]) \in 1..n
               /\ \A k \in DOMAIN chunks : k < Len(chunks) => Len(chunks[k]) = n

\* The same for the arrays that are not empty.
C34_ChunksPartitionNonEmpty ==
    (last.op = "chunkArray" /\ last.arr # <<>>) =>
        /\ ~last.out.threw
        /\ LET chunks == last.out.ret
               n == last.chunkSize
           IN  /\ Flatten(chunks) = last.arr
               /\ \A k \in DOMAIN chunks : Len(chunks[k]) \in 1..n
               /\ \A k \in DOMAIN chunks : k < Len(chunks) => Len(chunks[k]) = n

(***************************************************************************)
(* Claims about a resumed run of the file summarizer.                      *)
(***************************************************************************)
\* The context, as a load of the running process returns it, holds a summary
\* of the file.
Summarized(file) ==
    LET context == loadContext(CONTEXT, disk, useContext).ret
    IN  file \in DOMAIN context /\ Truthy(context[file])

\* Every call a step issues is for a file that has no summary in the context.
IssuedForMissing ==
    \A n \in DOMAIN calls' : n > Len(calls) => ~Summarized(calls'[n].file)

\* The run has failed at a key whose files all have their summary.
FailedOnResumedKey ==
    /\ pc = "failed"
    /\ keyIdx > 0
    /\ filesByKey[keyIdx] # <<>>
    /\ \A n \in DOMAIN filesByKey[keyIdx] : Summarized(filesByKey[keyIdx][n])

\* C33: no remote call is issued for a file whose summary is in the context,
\* and a run does not fail at a key whose files all have their summary: it
\* goes on to the next key and to the write of the state.
C33_ResumedRunCompletes ==
    /\ [][IssuedForMissing]_vars
    /\ [](~FailedOnResumedKey)

(***************************************************************************)
(* Claims about a failed call of the file summarizer.                      *)
(***************************************************************************)
\* A step in which a call rejects changes nothing but the state of the call.
RejectFrame ==
    \A n \in DOMAIN calls :
        (n \in DOMAIN calls' /\ calls[n].state = "pending"
            /\ calls'[n].state = "rejected") =>
            /\ pc' = pc
            /\ err' = err
            /\ <<CONTEXT, disk, saves>>' = <<CONTEXT, disk, saves>>
            /\ \A m \in DOMAIN calls : m # n => calls'[m] = calls[m]

\* A file whose calls of the run all rejected has no summary in the context.
RejectedNotSaved ==
    \A n \in DOMAIN calls :
        (/\ calls[n].state = "rejected"
         /\ \A m \in DOMAIN calls :
                calls[m].file = calls[n].file => calls[m].state # "resolved") =>
            /\ ~Summarized(calls[n].file)
            /\ calls[n].file \notin DOMAIN FileMap(disk, useContext)

\* The run that is over was given the file lists of the run before it.
SameFilesAgain ==
    /\ pc \in {"done", "failed"}
    /\ options.server
    /\ runs > 1
    /\ filesByKey = hist.prev.found

\* A file the run before skipped has got a call in the run that is over.
RetriedLater ==
    SameFilesAgain =>
        \A file \in hist.prev.skipped : \E n \in DOMAIN calls : calls[n].file = file

\* C35: a call that rejects leaves the run, the other calls and the context
\* as they are, nothing is saved under the file of the call, and the next
\* run over the same files issues a call for the file again.
C35_FailedCallSkipped ==
    /\ [][RejectFrame]_vars
    /\ [](RejectedNotSaved)
    /\ [](RetriedLater)

(***************************************************************************)
(* The cache keys of the units.  The table of contents comes from a remote *)
(* call, so an id is any text: here a sequence of up to MaxIdLen           *)
(* characters, or the word of a logical key.  The keys of up to two units  *)
(* are computed and kept in `calls`.                                       *)
(***************************************************************************)
MaxIdLen == 2

IdChars == {"a", "-"}
tocKey == <<"t", "o", "c">>
typesTocKey == <<"t", "y", "p", "e", "s", "T", "o", "c">>
\* generate-openapi.ts:52, :92  the logical keys of the two tables
ReservedKeys == {tocKey, typesTocKey}
UnitIds == UNION {[1..n -> IdChars] : n \in 1..MaxIdLen} \cup ReservedKeys

\* generate-api-doc.ts:66  `g-${section.id}-${part.id}`
partKey(sectionId, partIdOf) == <<"g", "-">> \o sectionId \o <<"-">> \o partIdOf
\* generate-api-doc.ts:30  section.id
sectionKey(sectionId) == sectionId
\* generate-openapi.ts:219  path.id
pathKey(pathId) == pathId
\* generate-openapi.ts:169  typeName
typeKey(typeName) == typeName

KeyedUnit(fn, ids, key) == [fn |-> fn, ids |-> ids, key |-> key]

KeyPart(sectionId, partIdOf) ==
    /\ Len(calls) < 2
    /\ calls' = Append(calls, KeyedUnit("generatePart", <<sectionId, partIdOf>>,
                                        partKey(sectionId, partIdOf)))
    /\ UNCHANGED <<cacheVars, genVars, filesByKey, keyIdx, filesToProcess,
                   sliceIdx, saves, output, oaVars>>

KeySection(sectionId) ==
    /\ Len(calls) < 2
    /\ calls' = Append(calls, KeyedUnit("generateSection", <<sectionId>>,
                                        sectionKey(sectionId)))
    /\ UNCHANGED <<cacheVars, genVars, filesByKey, keyIdx, filesToProcess,
                   sliceIdx, saves, output, oaVars>>

KeyPath(pathId) ==
    /\ Len(calls) < 2
    /\ calls' = Append(calls, KeyedUnit("generatePath", <<pathId>>, pathKey(pathId)))
    /\ UNCHANGED <<cacheVars, genVars, filesByKey, keyIdx, filesToProcess,
                   sliceIdx, saves, output, oaVars>>

KeyType(typeName) ==
    /\ Len(calls) < 2
    /\ calls' = Append(calls, KeyedUnit("generateType", <<typeName>>, typeKey(typeName)))
    /\ UNCHANGED <<cacheVars, genVars, filesByKey, keyIdx, filesToProcess,
                   sliceIdx, saves, output, oaVars>>

KeysNext ==
    \/ \E sectionId \in UnitIds, partIdOf \in UnitIds : KeyPart(sectionId, partIdOf)
    \/ \E sectionId \in UnitIds : KeySection(sectionId)
    \/ \E pathId \in UnitIds : KeyPath(pathId)
    \/ \E typeName \in UnitIds : KeyType(typeName)

SpecKeys == CacheInit /\ [][KeysNext]_vars

\* Two parts of different (section id, part id) have different keys.
PartKeysInjective ==
    \A a, b \in DOMAIN calls :
        (/\ calls[a].fn = "generatePart"
         /\ calls[b].fn = "generatePart"
         /\ calls[a].ids # calls[b].ids) => calls[a].key # calls[b].key

\* The key of no unit is a logical key.
NoReservedKey == \A a \in DOMAIN calls : calls[a].key \notin ReservedKeys

\* C36: the key 'g-{sectionId}-{partId}' of a part determines its section id
\* and part id, and no key of a section, part, path or type is one of the
\* logical keys 'toc' and 'typesToc'.
C36_UnitKeysInjective == PartKeysInjective /\ NoReservedKey

(***************************************************************************)
(* The cache scenarios with saves whose fs.writeFileSync (index.ts:400)    *)
(* throws.  The failed write leaves the file as it was.                    *)
(***************************************************************************)
\* Variant of the failing save that sets the mirror before it writes.
saveToContext_mirrorFirst(ctx, dsk, contextName, data) ==
    LET l == loadContext(ctx, dsk, contextName)
        newContext == MergeContext(l.ret, data)
    IN  [CONTEXT |-> [set |-> TRUE, map |-> Spread(EmptyMap, newContext)],
         disk |-> dsk]

\* index.ts:389-400  saveToContext up to the write that throws: the load has
\* been done, the assignment of the mirror at :403 is not reached.
saveToContext_writeFails(ctx, dsk, contextName, data) ==
    LET l == loadContext(ctx, dsk, contextName)
    IN  [CONTEXT |-> l.CONTEXT, disk |-> dsk]

SaveFails(name, data) ==
    LET s == saveToContext_writeFails(CONTEXT, disk, name, data) IN
    /\ CONTEXT' = s.CONTEXT
    /\ disk' = s.disk
    /\ last' = [op |-> "saveFailed", name |-> name, data |-> data,
                before |-> loadContext(CONTEXT, disk, name).ret,
                mirrorBefore |-> CONTEXT, fileBefore |-> FileMap(disk, name)]
    /\ UNCHANGED <<saved, otherWrites, genVars, extVars>>

SaveFailsNext ==
    \/ CacheNext
    \/ \E name \in ContextNames, data \in Partials : SaveFails(name, data)

SpecSaveFails == CacheInit /\ [][SaveFailsNext]_vars

\* C37: after a save whose write failed, the mirror is the one the process
\* had, or the content of the file when it had none, never the merged
\* mapping, and a load returns the mapping a load returned before the save.
C37_FailedSaveKeepsMirror ==
    last.op = "saveFailed" =>
        /\ IF last.mirrorBefore.set
           THEN CONTEXT = last.mirrorBefore
           ELSE CONTEXT.set => CONTEXT.map = last.fileBefore
        /\ FileMap(disk, last.name) = last.fileBefore
        /\ loadContext(CONTEXT, disk, last.name).ret = last.before

\* C37 witness: a failed save of a new value for a key the mirror holds; the
\* mirror still holds the old value.
C37_Witness ==
    /\ last.op = "saveFailed"
    /\ last.mirrorBefore.set
    /\ "a" \in DOMAIN last.data
    /\ "a" \in DOMAIN CONTEXT.map
    /\ last.data["a"] = Num(2)
    /\ CONTEXT.map["a"] = Num(1)

(***************************************************************************)
(* Claims about the end of the retry loop.                                 *)
(***************************************************************************)
\* C38: a backoff wait is always followed by another attempt of the section
\* that is being generated: when the wait is over the next call is issued,
\* and no wait is started after the 5th failed attempt.
C38_WaitThenAttempt ==
    /\ [][(pc = "wait" /\ pc' # "wait") =>
              (pc' = "sectionCall" /\ idx' = idx /\ hist'.attempts = hist.attempts + 1)]_vars
    /\ [](pc = "wait" => hist.failures < MaxAttempts)

(***************************************************************************)
(* Termination of the section walk.  One run is followed from its launch,  *)
(* on a context that is new or that an earlier run left when it stopped    *)
(* after its first section.  Every step of the run is eventually taken:    *)
(* a remote call that is in flight resolves or rejects, a backoff timer    *)
(* fires, and the code in between runs.                                    *)
(***************************************************************************)
\* :205  the markers of the first m sections of t, saved one after the other.
RECURSIVE MarkedUpTo(_, _, _)
MarkedUpTo(s, t, m) ==
    IF m = 0 THEN s
    ELSE LET p == MarkedUpTo(s, t, m - 1)
         IN  saveToContext(p.CONTEXT, p.disk, useContext,
                           [k \in {SectionKey(t.sections[m].slug)} |-> Obj(t.sections[m])])

\* :162-184  the section generated for an entry when every call answers its text.
PageOf(entry) ==
    [defined |-> TRUE, slug |-> entry.slug, title |-> entry.title,
     content |-> SectionName(entry),
     parts |-> [j \in 1..Len(entry.parts) |->
                   [title |-> entry.parts[j].title,
                    content |-> PartName(entry, entry.parts[j])]]]

\* What a run that generated the first m sections of t left: the context
\* file (:115, :135, :205) and the pages (:206).
LeftBy(t, m) ==
    LET inputs == saveToContext(NoContext, [f \in ContextNames |-> NoFile], useContext,
                                [k \in InputKeys |-> getFilesContent(k)])
        withToc == saveToContext(inputs.CONTEXT, inputs.disk, useContext,
                                 [k \in {"toc"} |-> Obj(t)])
    IN  [disk |-> MarkedUpTo(withToc, t, m).disk,
         pages |-> [slug \in {t.sections[k].slug : k \in 1..m} |->
                       PageOf(t.sections[CHOOSE k \in 1..m : t.sections[k].slug = slug])]]

LiveStarts ==
    {[disk |-> [f \in ContextNames |-> NoFile], pages |-> EmptyMap]}
        \cup {LeftBy(t, 1) : t \in Tocs}

LiveInit ==
    /\ CONTEXT = NoContext
    /\ \E st \in LiveStarts : disk = st.disk /\ pages = st.pages
    /\ last = NoOp
    /\ saved = FALSE
    /\ otherWrites = 0
    /\ pc = "launch"
    /\ toc = NoToc
    /\ idx = 0
    /\ i = 0
    /\ res = NoRes
    /\ generatedSection = NoSection
    /\ partIdx = 0
    /\ docParts = <<>>
    /\ docState = <<>>
    /\ runs = 1
    /\ err = <<>>
    /\ hist = NoHist
    /\ options \in Invocations
    /\ ExtIdle

LiveNext ==
    \/ Launch
    \/ Start
    \/ \E t \in Tocs : TocReturn(t)
    \/ \E message \in Messages : TocReject(message)
    \/ Finish
    \/ SkipSection
    \/ BeginSection
    \/ SectionReturn
    \/ PartReturn
    \/ \E message \in Messages : CallReject(message)
    \/ WaitElapsed
    \/ GiveUp
    \/ MarkDone
    \/ WriteSection

SpecLive == LiveInit /\ [][LiveNext]_vars /\ WF_vars(LiveNext)

Ended == pc \in {"finished", "failed", "returned"}

\* C39: a run of the section walk ends: it finishes with every section of
\* the table of contents marked, or it stops at a section; no section gets
\* more than 5 attempts.
C39_Termination ==
    /\ (~Ended) ~> Ended
    /\ [](hist.attempts <= MaxAttempts)
    /\ [](pc = "finished" =>
              \A k \in 1..Len(toc.sections) :
                  Marked(FileMap(disk, useContext), toc.sections[k].slug))

\* C39 witness: a resumed run has skipped the first section and reached the
\* end of the table; its last section took all 5 attempts.
C39_Witness ==
    /\ pc = "finished"
    /\ SectionKey("s1") \in DOMAIN hist.atStart
    /\ toc.sections[Len(toc.sections)].slug \in hist.called
    /\ hist.attempts = MaxAttempts

=============================================================================
